---- MODULE Spec2Model ----
(***************************************************************************)
(* A model of the cluster bootstrapper of custom-kub-cli                   *)
(* (src/k8s/clustersetup): ClusterManager.SetupCluster and                 *)
(* ClusterManager.DestroyCluster driving an SSHClient (the Transport), a   *)
(* CertificateManager and the local work directory.                        *)
(*                                                                         *)
(* The orchestrator is sequential code that checks the error of every call *)
(* and returns at the first one.  Each Go function is modelled by the      *)
(* sequence of calls it makes (a list of step records, in source order);   *)
(* one action per kind of call executes the step under the program counter *)
(* and lets the environment (remote hosts, file system, PKI library) pick  *)
(* the call's outcome.                                                     *)
(*                                                                         *)
(* A remote command is the sequence of its blank-separated words.          *)
(***************************************************************************)
EXTENDS Integers, Sequences, FiniteSets, TLC

VARIABLES
    config,         \* the ClusterConfig held by the ClusterManager
    workDirExists,  \* the local work directory exists
    localFiles,     \* files in the work directory: name -> [mode, content]
    mode,           \* the API call in progress or last made: idle, setup, destroy
    script,         \* the calls of the API call in progress, in program order
    pc,             \* index in script of the next call to make
    ranged,         \* keys already visited by the map range loop under pc
    elapsed,        \* seconds since the health gate under pc took its deadline
    probes,         \* unhealthy probes issued by the health gate under pc
    log,            \* every call issued so far, in order, with its outcome
    phasesDone,     \* phases of SetupCluster that returned nil, in order
    failedCalls,    \* Transport calls of the current API call that returned an error
    reissued,       \* Transport calls issued again after they had returned an error
    nonActive,      \* some probe of the current API call was answered other than active
    result,         \* per API call: none, running, nil, error
    errv,           \* per API call: the error returned (NoError if none)
    configFile,     \* the YAML file at the configuration path: [exists, doc]
    loaded,         \* what the last LoadClusterConfig returned: [called, config, err]
    ctxDone,        \* the context handed to the call in progress has been cancelled
    session,        \* the call of RealSSHClient.ExecuteCommand in flight, if any
    answer,         \* what the last probe of a health gate was answered: none, active, other
    term,           \* the terminal of the TUI: the Application's fields and the command it runs
    remote          \* per host, what DestroyCluster acts on: units, directories, files

vars == <<config, workDirExists, localFiles, mode, script, pc, ranged, elapsed, probes,
          log, phasesDone, failedCalls, reissued, nonActive, result, errv,
          configFile, loaded, ctxDone, session, answer, term, remote>>

----------------------------------------------------------------------------
(* Bounds of the model *)

\* largest number of worker nodes in a configuration
MaxWorkers == 2
\* longest time, in seconds, that one is-active probe takes to answer
MaxLatency == 5

(* Program constants *)

\* totalSteps := 6 in SetupCluster
totalSteps == 6
\* time.Sleep(5 * time.Second) between two probes of waitForService
PollInterval == 5
\* time.Sleep(30 * time.Second) before the last check of validateCluster
ValidateSleep == 30

Phases == <<"Prereq", "PKI", "Config", "Controller", "Workers", "Network", "Validate">>

\* the rank of a phase in SetupCluster; the calls of DestroyCluster rank last
PhaseRank ==
    [p \in {Phases[k] : k \in 1..Len(Phases)} \cup {"Destroy"} |->
        IF p = "Destroy" THEN Len(Phases) + 1 ELSE CHOOSE i \in 1..Len(Phases) : Phases[i] = p]

NoError == [kind |-> "nil"]

----------------------------------------------------------------------------
(* Configuration *)

\* the i-th worker of GenerateDefaultConfig (worker-0, worker-1, worker-2, ...)
DefaultWorker(i) ==
    [Name      |-> "worker-" \o ToString(i),
     IPAddress |-> "10.240.0.2" \o ToString(i),
     Hostname  |-> "worker-" \o ToString(i),
     PodCIDR   |-> "10.200." \o ToString(i) \o ".0/24"]

\* GenerateDefaultConfig, with its first n workers
GenerateDefaultConfig(n) ==
    [ClusterName       |-> "my-cluster",
     KubernetesVersion |-> "v1.26.0",
     EtcdVersion       |-> "v3.5.9",
     ContainerdVersion |-> "v1.7.2",
     CNIVersion        |-> "v1.3.0",
     CoreDNSVersion    |-> "1.10.1",
     PodCIDR           |-> "10.200.0.0/16",
     ServiceCIDR       |-> "10.32.0.0/24",
     ClusterDNS        |-> "10.32.0.10",
     WorkDir           |-> "/tmp/k8s-hard-way",
     SSHKey            |-> "~/.ssh/id_rsa",
     SSHUser           |-> "ubuntu",
     Controller        |-> [Name |-> "controller-0", IPAddress |-> "10.240.0.10",
                            Hostname |-> "controller-0", PodCIDR |-> ""],
     Workers           |-> [i \in 1..n |-> DefaultWorker(i - 1)],
     Certificates      |-> [Country |-> "US", State |-> "California",
                            City |-> "San Francisco", Organization |-> "ExampleOrg",
                            OrganizationalUnit |-> "IT", ValidityDays |-> 365]]

\* nodes := append([]Node{cm.config.Controller}, cm.config.Workers...)
Fleet(cfg) == <<cfg.Controller>> \o cfg.Workers

\* the concatenation of a sequence of sequences: the calls of a loop whose
\* body makes several calls
RECURSIVE Flatten(_)
Flatten(ss) == IF ss = <<>> THEN <<>> ELSE Head(ss) \o Flatten(Tail(ss))

----------------------------------------------------------------------------
(* Steps: the calls a function makes *)

\* a progress event that counts the Validate phase as a seventh step
ReportStepOfSeven(ph, n, desc) ==
    [phase |-> ph, op |-> "ReportProgress", step |-> IF ph = "Validate" THEN 7 ELSE n,
     total |-> 7, desc |-> desc]

\* cm.progress.ReportProgress(step, totalSteps, phase)
ReportStep(ph, n, desc) ==
    [phase |-> ph, op |-> "ReportProgress", step |-> n, total |-> totalSteps, desc |-> desc]

\* cm.sshClient.ExecuteCommand(ctx, host, cmd), its error returned to the caller
ExecStep(ph, ctx, host, cmd) ==
    [phase |-> ph, op |-> "ExecuteCommand", ctx |-> ctx, host |-> host, cmd |-> cmd]

\* for _, cmd := range cmds { ExecuteCommand(ctx, host, cmd) }
ExecEach(ph, host, cmds) ==
    [i \in 1..Len(cmds) |-> ExecStep(ph, "ctx", host, cmds[i])]

\* cm.sshClient.CopyFile(ctx, host, filepath.Join(workDir, file), remotePath)
CopyFileStep(ph, host, file, remotePath) ==
    [phase |-> ph, op |-> "CopyFile", ctx |-> "ctx", host |-> host,
     src |-> file, remotePath |-> remotePath]

\* cm.sshClient.CopyContent(ctx, host, content, remotePath)
CopyContentStep(ph, host, remotePath) ==
    [phase |-> ph, op |-> "CopyContent", ctx |-> "ctx", host |-> host,
     remotePaths |-> {remotePath}]

\* for path, content := range aMap { CopyContent(ctx, host, content, path) }:
\* Go visits the keys of a map in an unspecified order
CopyContentRangeStep(ph, host, paths) ==
    [phase |-> ph, op |-> "CopyContentRange", ctx |-> "ctx", host |-> host,
     remotePaths |-> paths]

\* the return of a phase function with a nil error
ReturnStep(ph) == [phase |-> ph, op |-> "return"]

\* os.MkdirAll(cm.config.WorkDir, 0755)
MkdirAllStep(ph, path) == [phase |-> ph, op |-> "MkdirAll", path |-> path]

\* cm.certManager.GenerateCA(workDir, cm.config.Certificates)
GenerateCAStep(ph, certs) == [phase |-> ph, op |-> "GenerateCA", certs |-> certs]

\* cm.certManager.GenerateClientCert(workDir, name, cm.config.Certificates)
GenerateClientCertStep(ph, name) == [phase |-> ph, op |-> "GenerateClientCert", name |-> name]

\* cm.certManager.GenerateServerCert(workDir, name, hosts, cm.config.Certificates)
GenerateServerCertStep(ph, name, hosts) ==
    [phase |-> ph, op |-> "GenerateServerCert", name |-> name, hosts |-> hosts]

\* cm.writeFile(filepath.Join(workDir, name), content)
WriteFileStep(ph, name, content) ==
    [phase |-> ph, op |-> "writeFile", name |-> name, content |-> content]

\* cm.waitForService(ctx, host, unit, timeout)
WaitStep(ph, host, unit, timeout) ==
    [phase |-> ph, op |-> "waitForService", ctx |-> "ctx", host |-> host,
     unit |-> unit, timeout |-> timeout]

\* time.Sleep(d)
SleepStep(ph, d) == [phase |-> ph, op |-> "Sleep", seconds |-> d]

\* os.RemoveAll(cm.config.WorkDir)
RemoveAllStep(ph, path) == [phase |-> ph, op |-> "RemoveAll", path |-> path]

----------------------------------------------------------------------------
(* manager.go: ValidateK8sPrerequisites *)

SSHTestCommand == <<"echo", "'SSH test'">>

ValidateK8sPrerequisites(cfg) ==
    [i \in 1..Len(Fleet(cfg)) |->
        ExecStep("Prereq", "Background", Fleet(cfg)[i].IPAddress, SSHTestCommand)]
    \o <<MkdirAllStep("Prereq", cfg.WorkDir)>>

----------------------------------------------------------------------------
(* setup.go (in config.go): generateCertificates and createConfigurations *)

ControlPlaneClientCerts ==
    <<"admin", "kube-controller-manager", "kube-proxy", "kube-scheduler", "service-account">>

\* clientCerts with the workers' certificates ahead of the control-plane ones
ClientCertsWorkersFirst(cfg) ==
    [i \in 1..Len(cfg.Workers) |-> cfg.Workers[i].Name] \o ControlPlaneClientCerts

\* clientCerts, with one name appended per worker
ClientCerts(cfg) ==
    ControlPlaneClientCerts \o [i \in 1..Len(cfg.Workers) |-> cfg.Workers[i].Name]

\* serverHosts without the fully qualified service name
ServerHostsShort(cfg) ==
    <<"127.0.0.1", "10.32.0.1", cfg.Controller.IPAddress, cfg.Controller.Hostname,
      "kubernetes", "kubernetes.default", "kubernetes.default.svc",
      "kubernetes.default.svc.cluster">>

ServerHosts(cfg) ==
    <<"127.0.0.1", "10.32.0.1", cfg.Controller.IPAddress, cfg.Controller.Hostname,
      "kubernetes", "kubernetes.default", "kubernetes.default.svc",
      "kubernetes.default.svc.cluster", "kubernetes.default.svc.cluster.local">>

generateCertificates(cfg) ==
    <<GenerateCAStep("PKI", cfg.Certificates)>>
    \o [i \in 1..Len(ClientCerts(cfg)) |-> GenerateClientCertStep("PKI", ClientCerts(cfg)[i])]
    \o <<GenerateServerCertStep("PKI", "kubernetes", ServerHosts(cfg))>>

\* generateEncryptionConfig: one aescbc key of 32 random bytes, then identity
generateEncryptionConfig ==
    WriteFileStep("Config", "encryption-config.yaml",
                  [kind |-> "EncryptionConfig", providers |-> <<"aescbc", "identity">>,
                   keyBytes |-> 32])

\* generateKubeconfig that never takes the ip it is given
generateKubeconfigOfController(cfg, name, ip) ==
    WriteFileStep("Config", name \o ".kubeconfig",
                  [kind |-> "Config",
                   server |-> "https://" \o cfg.Controller.IPAddress \o ":6443",
                   cluster |-> cfg.ClusterName,
                   user |-> name,
                   ca |-> cfg.WorkDir \o "/ca.pem",
                   cert |-> cfg.WorkDir \o "/" \o name \o ".pem",
                   key |-> cfg.WorkDir \o "/" \o name \o "-key.pem"])

\* generateKubeconfig(workDir, name, ip)
generateKubeconfig(cfg, name, ip) ==
    LET clusterIP == IF ip # "" THEN ip ELSE cfg.Controller.IPAddress
    IN  WriteFileStep("Config", name \o ".kubeconfig",
                      [kind |-> "Config",
                       server |-> "https://" \o clusterIP \o ":6443",
                       cluster |-> cfg.ClusterName,
                       user |-> name,
                       ca |-> cfg.WorkDir \o "/ca.pem",
                       cert |-> cfg.WorkDir \o "/" \o name \o ".pem",
                       key |-> cfg.WorkDir \o "/" \o name \o "-key.pem"])

ControlPlaneKubeconfigs == <<"kube-proxy", "kube-controller-manager", "kube-scheduler", "admin">>

createConfigurations(cfg) ==
    <<generateEncryptionConfig>>
    \o [i \in 1..Len(cfg.Workers) |->
            generateKubeconfig(cfg, cfg.Workers[i].Name, cfg.Workers[i].IPAddress)]
    \o [i \in 1..Len(ControlPlaneKubeconfigs) |->
            generateKubeconfig(cfg, ControlPlaneKubeconfigs[i],
                IF ControlPlaneKubeconfigs[i] \in {"kube-controller-manager", "kube-scheduler", "admin"}
                THEN cfg.Controller.IPAddress ELSE "")]

----------------------------------------------------------------------------
(* setup.go (in config.go): setupControlPlane *)

K8sRelease(cfg, binary) ==
    "'https://storage.googleapis.com/kubernetes-release/release/"
        \o cfg.KubernetesVersion \o "/bin/linux/amd64/" \o binary \o "'"

Wget == <<"wget", "-q", "--show-progress", "--https-only", "--timestamping">>

etcdCommands(cfg) ==
    << <<"sudo", "mkdir", "-p", "/etc/etcd", "/var/lib/etcd">>,
       <<"sudo", "groupadd", "-f", "etcd">>,
       <<"sudo", "useradd", "-g", "etcd", "-d", "/var/lib/etcd", "-s", "/sbin/nologin",
         "-c", "'etcd user'", "etcd", "||", "true">>,
       <<"sudo", "chown", "-R", "etcd:etcd", "/var/lib/etcd">>,
       Wget \o <<"'https://github.com/etcd-io/etcd/releases/download/" \o cfg.EtcdVersion
                    \o "/etcd-" \o cfg.EtcdVersion \o "-linux-amd64.tar.gz'">>,
       <<"tar", "-xzf", "etcd-" \o cfg.EtcdVersion \o "-linux-amd64.tar.gz">>,
       <<"sudo", "mv", "etcd-" \o cfg.EtcdVersion \o "-linux-amd64/etcd*", "/usr/local/bin/">>,
       <<"rm", "-f", "etcd-" \o cfg.EtcdVersion \o "-linux-amd64.tar.gz">> >>

etcdCertFiles == <<"ca.pem", "kubernetes-key.pem", "kubernetes.pem">>

\* per etcd certificate: CopyFile to /etc/etcd/, then chown etcd:etcd
CopyEtcdCert(cfg, file) ==
    <<CopyFileStep("Controller", cfg.Controller.IPAddress, file, "/etc/etcd/" \o file),
      ExecStep("Controller", "ctx", cfg.Controller.IPAddress,
               <<"sudo", "chown", "etcd:etcd", "/etc/etcd/" \o file>>)>>

k8sCommands(cfg) ==
    << <<"sudo", "mkdir", "-p", "/etc/kubernetes/config", "/var/lib/kubernetes">>,
       Wget \o <<K8sRelease(cfg, "kube-apiserver"), K8sRelease(cfg, "kube-controller-manager"),
                 K8sRelease(cfg, "kube-scheduler"), K8sRelease(cfg, "kubectl")>>,
       <<"chmod", "+x", "kube-apiserver", "kube-controller-manager", "kube-scheduler", "kubectl">>,
       <<"sudo", "mv", "kube-apiserver", "kube-controller-manager", "kube-scheduler", "kubectl",
         "/usr/local/bin/">> >>

additionalFiles ==
    <<"ca-key.pem", "service-account-key.pem", "service-account.pem",
      "encryption-config.yaml", "kube-controller-manager.kubeconfig", "kube-scheduler.kubeconfig">>

\* the keys of the services map of setupControlPlane, as unit file paths
controlPlaneServices ==
    {"/etc/systemd/system/" \o name \o ".service" :
        name \in {"kube-apiserver", "kube-controller-manager", "kube-scheduler"}}

last_services == <<"kube-controller-manager", "kube-scheduler">>

\* a last service started without its gate
StartLastServiceNoGate(cfg, service) ==
    <<ExecStep("Controller", "ctx", cfg.Controller.IPAddress,
               <<"sudo", "systemctl", "enable", service, "&&",
                 "sudo", "systemctl", "start", service>>)>>

\* enable and start one of last_services, then wait for it
StartLastService(cfg, service) ==
    <<ExecStep("Controller", "ctx", cfg.Controller.IPAddress,
               <<"sudo", "systemctl", "enable", service, "&&",
                 "sudo", "systemctl", "start", service>>),
      WaitStep("Controller", cfg.Controller.IPAddress, service, 30)>>

setupControlPlane(cfg) ==
    LET host == cfg.Controller.IPAddress
    IN  ExecEach("Controller", host, etcdCommands(cfg))
        \o Flatten([i \in 1..Len(etcdCertFiles) |-> CopyEtcdCert(cfg, etcdCertFiles[i])])
        \o <<CopyContentStep("Controller", host, "/etc/systemd/system/etcd.service")>>
        \o ExecEach("Controller", host, k8sCommands(cfg))
        \o [i \in 1..Len(additionalFiles) |->
                CopyFileStep("Controller", host, additionalFiles[i],
                             "/var/lib/kubernetes/" \o additionalFiles[i])]
        \o <<CopyContentRangeStep("Controller", host, controlPlaneServices)>>
        \o <<ExecStep("Controller", "ctx", host,
                      <<"sudo", "systemctl", "daemon-reload", "&&",
                        "sudo", "systemctl", "enable", "etcd", "&&",
                        "sudo", "systemctl", "start", "etcd">>),
             WaitStep("Controller", host, "etcd", 30),
             ExecStep("Controller", "ctx", host,
                      <<"sudo", "systemctl", "enable", "kube-apiserver", "&&",
                        "sudo", "systemctl", "start", "kube-apiserver">>),
             WaitStep("Controller", host, "kube-apiserver", 60)>>
        \o Flatten([i \in 1..Len(last_services) |-> StartLastService(cfg, last_services[i])])

----------------------------------------------------------------------------
(* setup.go (in config.go): setupSingleWorkerNode and setupWorkerNodes *)

depCommands ==
    << <<"sudo", "apt-get", "update">>,
       <<"sudo", "apt-get", "-y", "install", "socat", "conntrack", "ipset">>,
       <<"sudo", "mkdir", "-p", "/etc/cni/net.d", "/opt/cni/bin", "/var/lib/kubelet",
         "/var/lib/kube-proxy", "/var/lib/kubernetes", "/var/run/kubernetes">> >>

cniCommands(cfg) ==
    << Wget \o <<"'https://github.com/containernetworking/plugins/releases/download/"
                    \o cfg.CNIVersion \o "/cni-plugins-linux-amd64-" \o cfg.CNIVersion \o ".tgz'">>,
       <<"sudo", "tar", "-xzf", "cni-plugins-linux-amd64-" \o cfg.CNIVersion \o ".tgz",
         "-C", "/opt/cni/bin/">>,
       <<"rm", "-f", "cni-plugins-linux-amd64-" \o cfg.CNIVersion \o ".tgz">> >>

containerdCommands(cfg) ==
    << Wget \o <<"'https://github.com/containerd/containerd/releases/download/"
                    \o cfg.ContainerdVersion \o "/containerd-" \o cfg.ContainerdVersion
                    \o "-linux-amd64.tar.gz'">>,
       Wget \o <<"'https://github.com/opencontainers/runc/releases/download/v1.1.7/runc.amd64'">>,
       <<"sudo", "tar", "-xzf", "containerd-" \o cfg.ContainerdVersion \o "-linux-amd64.tar.gz",
         "-C", "/">>,
       <<"sudo", "mv", "runc.amd64", "runc">>,
       <<"chmod", "+x", "runc">>,
       <<"sudo", "mv", "runc", "/usr/local/bin/">>,
       <<"rm", "-f", "containerd-" \o cfg.ContainerdVersion \o "-linux-amd64.tar.gz">> >>

k8sWorkerCommands(cfg) ==
    << Wget \o <<K8sRelease(cfg, "kubectl"), K8sRelease(cfg, "kube-proxy"),
                 K8sRelease(cfg, "kubelet")>>,
       <<"chmod", "+x", "kubectl", "kube-proxy", "kubelet">>,
       <<"sudo", "mv", "kubectl", "kube-proxy", "kubelet", "/usr/local/bin/">> >>

workerFiles(worker) ==
    <<"ca.pem", worker.Name \o "-key.pem", worker.Name \o ".pem",
      worker.Name \o ".kubeconfig", "kube-proxy.kubeconfig">>

\* remotePath of a worker file: /var/lib/kubelet/, but kube-proxy.kubeconfig
\* goes to /var/lib/kube-proxy/
workerRemotePath(file) ==
    IF file = "kube-proxy.kubeconfig" THEN "/var/lib/kube-proxy/" \o file
    ELSE "/var/lib/kubelet/" \o file

\* the keys of the configs map of setupSingleWorkerNode
workerConfigs ==
    {"/etc/containerd/config.toml", "/etc/cni/net.d/10-bridge.conf",
     "/etc/cni/net.d/99-loopback.conf", "/var/lib/kubelet/kubelet-config.yaml",
     "/var/lib/kube-proxy/kube-proxy-config.yaml"}

\* the keys of the services map of setupSingleWorkerNode, as unit file paths
workerServices ==
    {"/etc/systemd/system/" \o name \o ".service" : name \in {"containerd", "kubelet", "kube-proxy"}}

workerStartCommands ==
    << <<"sudo", "systemctl", "daemon-reload">>,
       <<"sudo", "systemctl", "enable", "containerd", "kubelet", "kube-proxy">>,
       <<"sudo", "systemctl", "start", "containerd", "kubelet", "kube-proxy">> >>

\* setupSingleWorkerNode that starts the units before it has uploaded the unit files
setupSingleWorkerNodeStartsEarly(cfg, worker) ==
    LET host == worker.IPAddress
    IN  ExecEach("Workers", host, depCommands)
        \o ExecEach("Workers", host, cniCommands(cfg))
        \o ExecEach("Workers", host, containerdCommands(cfg))
        \o ExecEach("Workers", host, k8sWorkerCommands(cfg))
        \o [i \in 1..Len(workerFiles(worker)) |->
                CopyFileStep("Workers", host, workerFiles(worker)[i],
                             workerRemotePath(workerFiles(worker)[i]))]
        \o <<CopyContentRangeStep("Workers", host, workerConfigs)>>
        \o ExecEach("Workers", host, workerStartCommands)
        \o <<CopyContentRangeStep("Workers", host, workerServices)>>

setupSingleWorkerNode(cfg, worker) ==
    LET host == worker.IPAddress
    IN  ExecEach("Workers", host, depCommands)
        \o ExecEach("Workers", host, cniCommands(cfg))
        \o ExecEach("Workers", host, containerdCommands(cfg))
        \o ExecEach("Workers", host, k8sWorkerCommands(cfg))
        \o [i \in 1..Len(workerFiles(worker)) |->
                CopyFileStep("Workers", host, workerFiles(worker)[i],
                             workerRemotePath(workerFiles(worker)[i]))]
        \o <<CopyContentRangeStep("Workers", host, workerConfigs),
             CopyContentRangeStep("Workers", host, workerServices)>>
        \o ExecEach("Workers", host, workerStartCommands)

\* setupWorkerNodes that takes the workers from the last to the first
setupWorkerNodesLastFirst(cfg) ==
    Flatten([i \in 1..Len(cfg.Workers) |->
                setupSingleWorkerNode(cfg, cfg.Workers[Len(cfg.Workers) + 1 - i])])

setupWorkerNodes(cfg) ==
    Flatten([i \in 1..Len(cfg.Workers) |-> setupSingleWorkerNode(cfg, cfg.Workers[i])])

----------------------------------------------------------------------------
(* setup.go (in config.go): setupNetworking and validateCluster *)

AdminKubeconfig == <<"--kubeconfig", "/var/lib/kubernetes/admin.kubeconfig">>

\* the routes of a worker, each sent through the worker's own address
RoutesOnViaSelf(cfg, worker) ==
    LET others == SelectSeq(cfg.Workers, LAMBDA o : worker.Name # o.Name)
    IN  [j \in 1..Len(others) |->
            ExecStep("Network", "ctx", worker.IPAddress,
                     <<"sudo", "ip", "route", "add", others[j].PodCIDR, "via",
                       worker.IPAddress, "||", "true">>)]

\* the route commands issued on one worker: one per other worker, by name
RoutesOn(cfg, worker) ==
    LET others == SelectSeq(cfg.Workers, LAMBDA o : worker.Name # o.Name)
    IN  [j \in 1..Len(others) |->
            ExecStep("Network", "ctx", worker.IPAddress,
                     <<"sudo", "ip", "route", "add", others[j].PodCIDR, "via",
                       others[j].IPAddress, "||", "true">>)]

setupNetworking(cfg) ==
    Flatten([i \in 1..Len(cfg.Workers) |-> RoutesOn(cfg, cfg.Workers[i])])
    \o <<CopyContentStep("Network", cfg.Controller.IPAddress, "/tmp/coredns.yaml"),
         ExecStep("Network", "ctx", cfg.Controller.IPAddress,
                  <<"kubectl", "apply", "-f", "/tmp/coredns.yaml">> \o AdminKubeconfig)>>

\* validateCluster asking for the test deployment before the manifest is applied
validateClusterAsksEarly(cfg) ==
    LET host == cfg.Controller.IPAddress
    IN  <<ExecStep("Validate", "ctx", host, <<"kubectl", "get", "nodes">> \o AdminKubeconfig),
          ExecStep("Validate", "ctx", host,
                   <<"kubectl", "get", "pods", "-n", "kube-system">> \o AdminKubeconfig),
          CopyContentStep("Validate", host, "/tmp/test-app.yaml"),
          ExecStep("Validate", "ctx", host,
                   <<"kubectl", "get", "deployment", "test-deployment">> \o AdminKubeconfig),
          SleepStep("Validate", ValidateSleep),
          ExecStep("Validate", "ctx", host,
                   <<"kubectl", "apply", "-f", "/tmp/test-app.yaml">> \o AdminKubeconfig)>>

validateCluster(cfg) ==
    LET host == cfg.Controller.IPAddress
    IN  <<ExecStep("Validate", "ctx", host, <<"kubectl", "get", "nodes">> \o AdminKubeconfig),
          ExecStep("Validate", "ctx", host,
                   <<"kubectl", "get", "pods", "-n", "kube-system">> \o AdminKubeconfig),
          CopyContentStep("Validate", host, "/tmp/test-app.yaml"),
          ExecStep("Validate", "ctx", host,
                   <<"kubectl", "apply", "-f", "/tmp/test-app.yaml">> \o AdminKubeconfig),
          SleepStep("Validate", ValidateSleep),
          ExecStep("Validate", "ctx", host,
                   <<"kubectl", "get", "deployment", "test-deployment">> \o AdminKubeconfig)>>

----------------------------------------------------------------------------
(* manager.go: SetupCluster and DestroyCluster *)

\* SetupCluster with the worker nodes set up before the control plane
SetupClusterWorkersFirst(cfg) ==
    <<ReportStep("Prereq", 1, "Checking Prerequisites")>>
        \o ValidateK8sPrerequisites(cfg) \o <<ReturnStep("Prereq")>>
    \o <<ReportStep("PKI", 2, "Generating Certificates")>>
        \o generateCertificates(cfg) \o <<ReturnStep("PKI")>>
    \o <<ReportStep("Config", 3, "Creating Configurations")>>
        \o createConfigurations(cfg) \o <<ReturnStep("Config")>>
    \o <<ReportStep("Workers", 5, "Setting Up Worker Nodes")>>
        \o setupWorkerNodes(cfg) \o <<ReturnStep("Workers")>>
    \o <<ReportStep("Controller", 4, "Setting Up Control Plane")>>
        \o setupControlPlane(cfg) \o <<ReturnStep("Controller")>>
    \o <<ReportStep("Network", 6, "Setting Up Networking")>>
        \o setupNetworking(cfg) \o <<ReturnStep("Network")>>
    \o <<ReportStep("Validate", 6, "Validating Cluster")>>
        \o validateCluster(cfg) \o <<ReturnStep("Validate")>>

\* SetupCluster with the certificates generated before the prerequisite check
SetupClusterCertsFirst(cfg) ==
    <<ReportStep("PKI", 2, "Generating Certificates")>>
        \o generateCertificates(cfg) \o <<ReturnStep("PKI")>>
    \o <<ReportStep("Prereq", 1, "Checking Prerequisites")>>
        \o ValidateK8sPrerequisites(cfg) \o <<ReturnStep("Prereq")>>
    \o <<ReportStep("Config", 3, "Creating Configurations")>>
        \o createConfigurations(cfg) \o <<ReturnStep("Config")>>
    \o <<ReportStep("Controller", 4, "Setting Up Control Plane")>>
        \o setupControlPlane(cfg) \o <<ReturnStep("Controller")>>
    \o <<ReportStep("Workers", 5, "Setting Up Worker Nodes")>>
        \o setupWorkerNodes(cfg) \o <<ReturnStep("Workers")>>
    \o <<ReportStep("Network", 6, "Setting Up Networking")>>
        \o setupNetworking(cfg) \o <<ReturnStep("Network")>>
    \o <<ReportStep("Validate", 6, "Validating Cluster")>>
        \o validateCluster(cfg) \o <<ReturnStep("Validate")>>

SetupCluster(cfg) ==
    <<ReportStep("Prereq", 1, "Checking Prerequisites")>>
        \o ValidateK8sPrerequisites(cfg) \o <<ReturnStep("Prereq")>>
    \o <<ReportStep("PKI", 2, "Generating Certificates")>>
        \o generateCertificates(cfg) \o <<ReturnStep("PKI")>>
    \o <<ReportStep("Config", 3, "Creating Configurations")>>
        \o createConfigurations(cfg) \o <<ReturnStep("Config")>>
    \o <<ReportStep("Controller", 4, "Setting Up Control Plane")>>
        \o setupControlPlane(cfg) \o <<ReturnStep("Controller")>>
    \o <<ReportStep("Workers", 5, "Setting Up Worker Nodes")>>
        \o setupWorkerNodes(cfg) \o <<ReturnStep("Workers")>>
    \o <<ReportStep("Network", 6, "Setting Up Networking")>>
        \o setupNetworking(cfg) \o <<ReturnStep("Network")>>
    \o <<ReportStep("Validate", 6, "Validating Cluster")>>
        \o validateCluster(cfg) \o <<ReturnStep("Validate")>>

DestroyDirs ==
    <<"/etc/etcd", "/var/lib/etcd", "/etc/kubernetes", "/var/lib/kubernetes",
      "/var/lib/kubelet", "/var/lib/kube-proxy", "/etc/cni", "/opt/cni", "/var/run/kubernetes">>

KnownUnits ==
    <<"etcd", "kube-apiserver", "kube-controller-manager", "kube-scheduler",
      "containerd", "kubelet", "kube-proxy">>

\* the commands slice with the unit files removed ahead of the binaries
DestroyCommandsUnitFilesFirst ==
    << <<"sudo", "systemctl", "stop">> \o KnownUnits \o <<"||", "true">>,
       <<"sudo", "systemctl", "disable">> \o KnownUnits \o <<"||", "true">>,
       <<"sudo", "rm", "-rf">> \o DestroyDirs,
       <<"sudo", "rm", "-f", "/etc/systemd/system/etcd.service",
         "/etc/systemd/system/kube*.service", "/etc/systemd/system/containerd.service">>,
       <<"sudo", "rm", "-f", "/usr/local/bin/etcd*", "/usr/local/bin/kube*",
         "/usr/local/bin/runc", "/bin/containerd*">>,
       <<"sudo", "systemctl", "daemon-reload">>,
       <<"sudo", "systemctl", "reset-failed">> >>

\* the commands slice with no `|| true` after stop and disable
DestroyCommandsStrict ==
    << <<"sudo", "systemctl", "stop">> \o KnownUnits,
       <<"sudo", "systemctl", "disable">> \o KnownUnits,
       <<"sudo", "rm", "-rf">> \o DestroyDirs,
       <<"sudo", "rm", "-f", "/usr/local/bin/etcd*", "/usr/local/bin/kube*",
         "/usr/local/bin/runc", "/bin/containerd*">>,
       <<"sudo", "rm", "-f", "/etc/systemd/system/etcd.service",
         "/etc/systemd/system/kube*.service", "/etc/systemd/system/containerd.service">>,
       <<"sudo", "systemctl", "daemon-reload">>,
       <<"sudo", "systemctl", "reset-failed">> >>

\* the commands slice of DestroyCluster
DestroyCommands ==
    << <<"sudo", "systemctl", "stop">> \o KnownUnits \o <<"||", "true">>,
       <<"sudo", "systemctl", "disable">> \o KnownUnits \o <<"||", "true">>,
       <<"sudo", "rm", "-rf">> \o DestroyDirs,
       <<"sudo", "rm", "-f", "/usr/local/bin/etcd*", "/usr/local/bin/kube*",
         "/usr/local/bin/runc", "/bin/containerd*">>,
       <<"sudo", "rm", "-f", "/etc/systemd/system/etcd.service",
         "/etc/systemd/system/kube*.service", "/etc/systemd/system/containerd.service">>,
       <<"sudo", "systemctl", "daemon-reload">>,
       <<"sudo", "systemctl", "reset-failed">> >>

\* DestroyCluster that cleans the workers only
DestroyClusterWorkersOnly(cfg) ==
    Flatten([i \in 1..Len(cfg.Workers) |->
                ExecEach("Destroy", cfg.Workers[i].IPAddress, DestroyCommands)])
    \o <<RemoveAllStep("Destroy", cfg.WorkDir)>>

DestroyCluster(cfg) ==
    Flatten([i \in 1..Len(Fleet(cfg)) |->
                ExecEach("Destroy", Fleet(cfg)[i].IPAddress, DestroyCommands)])
    \o <<RemoveAllStep("Destroy", cfg.WorkDir)>>

----------------------------------------------------------------------------
(* The running call *)

Running == mode \in {"setup", "destroy"} /\ result[mode] = "running"

\* the next call to make is an `op`
AtStep(op) == Running /\ pc <= Len(script) /\ script[pc].op = op

Cur == script[pc]

\* if err != nil { return fmt.Errorf("...: %w", err) }
Fail(kind) ==
    /\ result' = [result EXCEPT ![mode] = "error"]
    /\ errv' = [errv EXCEPT ![mode] = [kind |-> kind, phase |-> Cur.phase, what |-> Cur]]
    /\ pc' = pc

\* the call returned nil: on to the next statement
Proceed ==
    /\ pc' = pc + 1
    /\ UNCHANGED <<result, errv>>

Call(host, what) == [host |-> host, cmd |-> what]

\* history of the Transport: which calls failed, which were made again after failing
TransportCall(call, ok) ==
    /\ failedCalls' = IF ok THEN failedCalls ELSE failedCalls \cup {call}
    /\ reissued' = IF call \in failedCalls THEN reissued \cup {call} ELSE reissued

\* os.WriteFile(name, content, perm): perm is used only when the file is created
Write(fs, name, perm, content) ==
    [n \in DOMAIN fs \cup {name} |->
        IF n = name
        THEN [mode |-> IF name \in DOMAIN fs THEN fs[name].mode ELSE perm, content |-> content]
        ELSE fs[n]]

\* the writes of one function, in order
RECURSIVE WriteAll(_, _)
WriteAll(fs, files) ==
    IF files = <<>> THEN fs
    ELSE WriteAll(Write(fs, Head(files).name, Head(files).mode, Head(files).content), Tail(files))

Names(files) == {files[i].name : i \in 1..Len(files)}

----------------------------------------------------------------------------
(* certmanager.go (in config.go): RealCertificateManager *)

\* the files GenerateCA writes, in order
CAFiles(certs) ==
    <<[name |-> "ca.pem", mode |-> "0644",
       content |-> [kind |-> "CERTIFICATE", cn |-> certs.Organization, isCA |-> TRUE,
                    hosts |-> <<>>, expiryHours |-> certs.ValidityDays * 24]],
      [name |-> "ca-key.pem", mode |-> "0600", content |-> [kind |-> "KEY", cn |-> certs.Organization]],
      [name |-> "ca-config.json", mode |-> "0644",
       content |-> [kind |-> "ca-config", profile |-> "kubernetes", expiry |-> "8760h",
                    usages |-> <<"signing", "key encipherment", "server auth", "client auth">>]]>>

\* leaf files with the key as readable as the certificate
LeafFilesOpenKey(name, hosts) ==
    <<[name |-> name \o ".pem", mode |-> "0644",
       content |-> [kind |-> "CERTIFICATE", cn |-> name, isCA |-> FALSE, hosts |-> hosts,
                    profile |-> "kubernetes"]],
      [name |-> name \o "-key.pem", mode |-> "0644", content |-> [kind |-> "KEY", cn |-> name]]>>

\* the files GenerateClientCert and GenerateServerCert write, in order
LeafFiles(name, hosts) ==
    <<[name |-> name \o ".pem", mode |-> "0644",
       content |-> [kind |-> "CERTIFICATE", cn |-> name, isCA |-> FALSE, hosts |-> hosts,
                    profile |-> "kubernetes"]],
      [name |-> name \o "-key.pem", mode |-> "0600", content |-> [kind |-> "KEY", cn |-> name]]>>

\* the files a leaf issuance reads from the work directory
CAInputs == {"ca-config.json", "ca.pem", "ca-key.pem"}

----------------------------------------------------------------------------
(* The environment's answers *)

\* how a CopyFile or CopyContent ends: both sessions succeed; nothing is written;
\* the content is written but the second session (chmod 644) fails
CopyOutcomes == {"ok", "failed", "written"}

Whitespace == {" ", "\n", "\t", "\r"}

\* what `systemctl is-active` may print, as the sequence of its pieces
ProbeOutputs == {<<"active", "\n">>, <<"active">>, <<"activating", "\n">>, <<"failed", "\n">>}

\* (output, err) of a probe: ExecuteCommand returns "" with an error
ProbeReplies ==
    {[err |-> FALSE, out |-> o] : o \in ProbeOutputs} \cup {[err |-> TRUE, out |-> <<>>]}

Latencies == {0, MaxLatency}

\* strings.TrimSpace
RECURSIVE TrimLeft(_)
TrimLeft(s) == IF s # <<>> /\ Head(s) \in Whitespace THEN TrimLeft(Tail(s)) ELSE s

RECURSIVE TrimRight(_)
TrimRight(s) ==
    IF s # <<>> /\ s[Len(s)] \in Whitespace THEN TrimRight(SubSeq(s, 1, Len(s) - 1)) ELSE s

TrimSpace(s) == TrimRight(TrimLeft(s))

\* the unit's state, as systemctl printed it, is `active`
AnswersActive(reply) == ~reply.err /\ \E i \in 1..Len(reply.out) : reply.out[i] = "active"

\* a comparison of the raw output
IsHealthyUntrimmed(reply) == ~reply.err /\ reply.out = <<"active">>

\* err == nil && strings.TrimSpace(output) == "active"
IsHealthy(reply) == ~reply.err /\ TrimSpace(reply.out) = <<"active">>

\* a probe that asks whether the unit is enabled
IsEnabledCommand(unit) == <<"sudo", "systemctl", "is-enabled", unit>>

IsActiveCommand(unit) == <<"sudo", "systemctl", "is-active", unit>>

----------------------------------------------------------------------------
(* Actions *)

\* a configuration that LoadClusterConfig accepts although two of its workers
\* bear the same name: the loader checks each worker's fields for emptiness only
TwoWorkersOfOneName == [GenerateDefaultConfig(2) EXCEPT !.Workers[2].Name = "worker-0"]

\* the configurations a ClusterManager is built on
Configs == {GenerateDefaultConfig(n) : n \in 1..MaxWorkers} \cup {TwoWorkersOfOneName}

\* no file at the configuration path
NoFile == [exists |-> FALSE, doc |-> <<>>]

\* the hosts are seen through the Transport's answers only
NoRemote == <<>>

\* no call of RealSSHClient.ExecuteCommand is in flight
NoSession == [stage |-> "none"]

\* the TUI is not in its terminal view
NoTerminal == [state |-> "clusterSelectionView"]

\* LoadClusterConfig has not been called
NotLoaded == [called |-> FALSE, config |-> <<>>, err |-> ""]

Init ==
    /\ config \in Configs
    /\ ctxDone = FALSE
    /\ session = NoSession
    /\ remote = NoRemote
    /\ answer = "none"
    /\ term = NoTerminal
    /\ configFile = NoFile
    /\ loaded = NotLoaded
    /\ workDirExists \in BOOLEAN
    /\ localFiles = <<>>
    /\ mode = "idle"
    /\ script = <<>>
    /\ pc = 1
    /\ ranged = {}
    /\ elapsed = 0
    /\ probes = 0
    /\ log = <<>>
    /\ phasesDone = <<>>
    /\ failedCalls = {}
    /\ reissued = {}
    /\ nonActive = FALSE
    /\ result = [setup |-> "none", destroy |-> "none"]
    /\ errv = [setup |-> NoError, destroy |-> NoError]

\* a caller invokes cm.SetupCluster(ctx)
StartSetup ==
    /\ mode = "idle"
    /\ mode' = "setup"
    /\ script' = SetupCluster(config)
    /\ pc' = 1
    /\ result' = [result EXCEPT !.setup = "running"]
    /\ UNCHANGED <<config, remote, configFile, loaded, term, ctxDone, session, answer, workDirExists, localFiles, ranged, elapsed, probes, log,
                   phasesDone, failedCalls, reissued, nonActive, errv>>

\* a caller invokes cm.DestroyCluster(ctx): on a fleet never set up, or after
\* SetupCluster returned (nil or an error)
StartDestroy ==
    /\ mode = "idle" \/ (mode = "setup" /\ result.setup \in {"nil", "error"})
    /\ mode' = "destroy"
    /\ script' = DestroyCluster(config)
    /\ pc' = 1
    /\ ranged' = {}
    /\ elapsed' = 0
    /\ probes' = 0
    /\ failedCalls' = {}
    /\ reissued' = {}
    /\ nonActive' = FALSE
    /\ result' = [result EXCEPT !.destroy = "running"]
    /\ UNCHANGED <<config, remote, configFile, loaded, term, ctxDone, session, answer, workDirExists, localFiles, log, phasesDone, errv>>

ReportProgress ==
    /\ AtStep("ReportProgress")
    /\ log' = Append(log, Cur @@ [ok |-> TRUE])
    /\ Proceed
    /\ UNCHANGED <<config, remote, configFile, loaded, term, ctxDone, session, answer, workDirExists, localFiles, mode, script, ranged, elapsed, probes,
                   phasesDone, failedCalls, reissued, nonActive>>

\* ExecuteCommand whose caller drops the error and goes on
ExecuteCommandIgnoresError ==
    /\ AtStep("ExecuteCommand")
    /\ \E ok \in BOOLEAN :
        /\ log' = Append(log, Cur @@ [ok |-> ok])
        /\ TransportCall(Call(Cur.host, Cur.cmd), ok)
        /\ Proceed
    /\ UNCHANGED <<config, remote, configFile, loaded, term, ctxDone, session, answer, workDirExists, localFiles, mode, script, ranged, elapsed, probes,
                   phasesDone, nonActive>>

\* ExecuteCommand whose caller issues the command again when it fails
ExecuteCommandRetries ==
    /\ AtStep("ExecuteCommand")
    /\ \E ok \in BOOLEAN :
        /\ log' = Append(log, Cur @@ [ok |-> ok])
        /\ TransportCall(Call(Cur.host, Cur.cmd), ok)
        /\ IF ok THEN Proceed ELSE UNCHANGED <<pc, result, errv>>
    /\ UNCHANGED <<config, remote, configFile, loaded, term, ctxDone, session, answer, workDirExists, localFiles, mode, script, ranged, elapsed, probes,
                   phasesDone, nonActive>>

\* what the remote command may print: the callers outside validateCluster discard it
Stdouts(step) == IF step.phase = "Validate" THEN {"Ready", "NotReady"} ELSE {""}

ExecuteCommand ==
    /\ AtStep("ExecuteCommand")
    /\ \E ok \in BOOLEAN, out \in Stdouts(Cur) :
        /\ log' = Append(log, Cur @@ [ok |-> ok, stdout |-> IF ok THEN out ELSE ""])
        /\ TransportCall(Call(Cur.host, Cur.cmd), ok)
        /\ IF ok THEN Proceed ELSE Fail("ErrTransport")
    /\ UNCHANGED <<config, remote, configFile, loaded, term, ctxDone, session, answer, workDirExists, localFiles, mode, script, ranged, elapsed, probes,
                   phasesDone, nonActive>>

CopyFile ==
    /\ AtStep("CopyFile")
    /\ \E o \in CopyOutcomes :
        LET outcome == IF Cur.src \in DOMAIN localFiles THEN o ELSE "unreadable"
            wrote == IF outcome \in {"ok", "written"} THEN {Cur.remotePath} ELSE {}
        IN  /\ log' = Append(log, Cur @@ [ok |-> outcome = "ok", wrote |-> wrote])
            /\ TransportCall(Call(Cur.host, <<"CopyFile", Cur.remotePath>>), outcome = "ok")
            /\ IF outcome = "ok" THEN Proceed
               ELSE IF outcome = "unreadable" THEN Fail("ErrNoSuchFile")
               ELSE Fail("ErrTransport")
    /\ UNCHANGED <<config, remote, configFile, loaded, term, ctxDone, session, answer, workDirExists, localFiles, mode, script, ranged, elapsed, probes,
                   phasesDone, nonActive>>

CopyContent ==
    /\ AtStep("CopyContent")
    /\ \E o \in CopyOutcomes :
        /\ log' = Append(log, Cur @@ [ok |-> o = "ok",
                                      wrote |-> IF o = "failed" THEN {} ELSE Cur.remotePaths])
        /\ TransportCall(Call(Cur.host, <<"CopyContent">> \o
                                          <<CHOOSE p \in Cur.remotePaths : TRUE>>), o = "ok")
        /\ IF o = "ok" THEN Proceed ELSE Fail("ErrTransport")
    /\ UNCHANGED <<config, remote, configFile, loaded, term, ctxDone, session, answer, workDirExists, localFiles, mode, script, ranged, elapsed, probes,
                   phasesDone, nonActive>>

\* one iteration of a range loop over a map of uploads.  The uploads of one
\* loop that succeeded share one log entry, so that the log does not keep the
\* order in which the map was visited.
CopyContentRange ==
    /\ AtStep("CopyContentRange")
    /\ \E p \in Cur.remotePaths \ ranged, o \in CopyOutcomes :
        /\ TransportCall(Call(Cur.host, <<"CopyContent", p>>), o = "ok")
        /\ IF o = "ok"
           THEN /\ log' = IF ranged = {}
                          THEN Append(log, [Cur EXCEPT !.op = "CopyContent", !.remotePaths = {p}]
                                            @@ [ok |-> TRUE, wrote |-> {p}])
                          ELSE [log EXCEPT ![Len(log)].remotePaths = @ \cup {p},
                                           ![Len(log)].wrote = @ \cup {p}]
                /\ IF ranged \cup {p} = Cur.remotePaths
                   THEN Proceed /\ ranged' = {}
                   ELSE ranged' = ranged \cup {p} /\ UNCHANGED <<pc, result, errv>>
           ELSE /\ log' = Append(log, [Cur EXCEPT !.op = "CopyContent", !.remotePaths = {p}]
                                       @@ [ok |-> FALSE,
                                           wrote |-> IF o = "written" THEN {p} ELSE {}])
                /\ Fail("ErrTransport")
                /\ UNCHANGED ranged
    /\ UNCHANGED <<config, remote, configFile, loaded, term, ctxDone, session, answer, workDirExists, localFiles, mode, script, elapsed, probes,
                   phasesDone, nonActive>>

\* os.MkdirAll: nil when the directory is already there
MkdirAll ==
    /\ AtStep("MkdirAll")
    /\ \E o \in BOOLEAN :
        LET ok == workDirExists \/ o
        IN  /\ workDirExists' = ok
            /\ log' = Append(log, Cur @@ [ok |-> ok])
            /\ IF ok THEN Proceed ELSE Fail("ErrIO")
    /\ UNCHANGED <<config, remote, configFile, loaded, term, ctxDone, session, answer, localFiles, mode, script, ranged, elapsed, probes,
                   phasesDone, failedCalls, reissued, nonActive>>

\* os.RemoveAll: nil when there is nothing to remove
RemoveAll ==
    /\ AtStep("RemoveAll")
    /\ \E o \in BOOLEAN :
        LET ok == ~workDirExists \/ o
        IN  /\ workDirExists' = (workDirExists /\ ~ok)
            /\ localFiles' = IF ok THEN <<>> ELSE localFiles
            /\ log' = Append(log, Cur @@ [ok |-> ok])
            /\ IF ok THEN Proceed ELSE Fail("ErrIO")
    /\ UNCHANGED <<config, remote, configFile, loaded, term, ctxDone, session, answer, mode, script, ranged, elapsed, probes,
                   phasesDone, failedCalls, reissued, nonActive>>

\* an issuance that writes the first k of `files` and fails unless it wrote all
Issue(files, ready, k) ==
    LET n == IF ready /\ workDirExists THEN k ELSE 0
        ok == n = Len(files)
    IN  /\ localFiles' = WriteAll(localFiles, SubSeq(files, 1, n))
        /\ log' = Append(log, Cur @@ [ok |-> ok, wrote |-> Names(SubSeq(files, 1, n))])
        /\ IF ok THEN Proceed
           ELSE IF ~ready THEN Fail("ErrNoSuchFile")
           ELSE Fail("ErrPKI")

GenerateCA ==
    /\ AtStep("GenerateCA")
    /\ \E k \in 0..Len(CAFiles(Cur.certs)) : Issue(CAFiles(Cur.certs), TRUE, k)
    /\ UNCHANGED <<config, remote, configFile, loaded, term, ctxDone, session, answer, workDirExists, mode, script, ranged, elapsed, probes,
                   phasesDone, failedCalls, reissued, nonActive>>

GenerateClientCert ==
    /\ AtStep("GenerateClientCert")
    /\ \E k \in 0..Len(LeafFiles(Cur.name, <<>>)) :
        Issue(LeafFiles(Cur.name, <<>>), CAInputs \subseteq DOMAIN localFiles, k)
    /\ UNCHANGED <<config, remote, configFile, loaded, term, ctxDone, session, answer, workDirExists, mode, script, ranged, elapsed, probes,
                   phasesDone, failedCalls, reissued, nonActive>>

GenerateServerCert ==
    /\ AtStep("GenerateServerCert")
    /\ \E k \in 0..Len(LeafFiles(Cur.name, Cur.hosts)) :
        Issue(LeafFiles(Cur.name, Cur.hosts), CAInputs \subseteq DOMAIN localFiles, k)
    /\ UNCHANGED <<config, remote, configFile, loaded, term, ctxDone, session, answer, workDirExists, mode, script, ranged, elapsed, probes,
                   phasesDone, failedCalls, reissued, nonActive>>

writeFile ==
    /\ AtStep("writeFile")
    /\ \E o \in BOOLEAN :
        LET ok == workDirExists /\ o
        IN  /\ localFiles' = IF ok THEN Write(localFiles, Cur.name, "0644", Cur.content)
                             ELSE localFiles
            /\ log' = Append(log, Cur @@ [ok |-> ok])
            /\ IF ok THEN Proceed ELSE Fail("ErrIO")
    /\ UNCHANGED <<config, remote, configFile, loaded, term, ctxDone, session, answer, workDirExists, mode, script, ranged, elapsed, probes,
                   phasesDone, failedCalls, reissued, nonActive>>

\* one iteration of the loop of waitForService: a probe, then either return nil
\* or sleep.  Only the probe that ends the gate is appended to the log; the
\* others are counted in `probes` and remembered in failedCalls and nonActive.
waitForService ==
    /\ AtStep("waitForService")
    /\ elapsed < Cur.timeout
    /\ \E reply \in ProbeReplies, latency \in Latencies :
        /\ TransportCall(Call(Cur.host, IsActiveCommand(Cur.unit)), ~reply.err)
        /\ IF IsHealthy(reply)
           THEN /\ log' = Append(log, ExecStep(Cur.phase, Cur.ctx, Cur.host,
                                               IsActiveCommand(Cur.unit))
                                      @@ [ok |-> TRUE, healthy |-> TRUE])
                /\ Proceed
                /\ elapsed' = 0
                /\ probes' = 0
           ELSE /\ elapsed' = elapsed + latency + PollInterval
                /\ probes' = probes + 1
                /\ UNCHANGED <<log, pc, result, errv>>
        /\ nonActive' = (nonActive \/ ~AnswersActive(reply))
        /\ answer' = IF AnswersActive(reply) THEN "active" ELSE "other"
    /\ UNCHANGED <<config, remote, configFile, loaded, term, ctxDone, session, workDirExists, localFiles, mode, script, ranged, phasesDone>>

\* a gate that returns nil at its deadline
waitForServiceGivesUp ==
    /\ AtStep("waitForService")
    /\ ~(elapsed < Cur.timeout)
    /\ log' = Append(log, Cur @@ [ok |-> TRUE])
    /\ Proceed
    /\ elapsed' = 0
    /\ probes' = 0
    /\ UNCHANGED <<config, remote, configFile, loaded, term, ctxDone, session, answer, workDirExists, localFiles, mode, script, ranged,
                   phasesDone, failedCalls, reissued, nonActive>>

\* the loop of waitForService ends at the deadline: the unhealthy error
waitForServiceDeadline ==
    /\ AtStep("waitForService")
    /\ ~(elapsed < Cur.timeout)
    /\ log' = Append(log, Cur @@ [ok |-> FALSE])
    /\ Fail("ErrUnhealthy")
    /\ UNCHANGED <<config, remote, configFile, loaded, term, ctxDone, session, answer, workDirExists, localFiles, mode, script, ranged, elapsed, probes,
                   phasesDone, failedCalls, reissued, nonActive>>

Sleep ==
    /\ AtStep("Sleep")
    /\ Proceed
    /\ UNCHANGED <<config, remote, configFile, loaded, term, ctxDone, session, answer, workDirExists, localFiles, mode, script, ranged, elapsed, probes, log,
                   phasesDone, failedCalls, reissued, nonActive>>

\* a phase function returns nil to SetupCluster
PhaseReturn ==
    /\ AtStep("return")
    /\ phasesDone' = Append(phasesDone, Cur.phase)
    /\ Proceed
    /\ UNCHANGED <<config, remote, configFile, loaded, term, ctxDone, session, answer, workDirExists, localFiles, mode, script, ranged, elapsed, probes, log,
                   failedCalls, reissued, nonActive>>

\* the API call has made its last call: return nil
ReturnNil ==
    /\ Running
    /\ pc = Len(script) + 1
    /\ result' = [result EXCEPT ![mode] = "nil"]
    /\ UNCHANGED <<config, remote, configFile, loaded, term, ctxDone, session, answer, workDirExists, localFiles, mode, script, pc, ranged, elapsed, probes, log,
                   phasesDone, failedCalls, reissued, nonActive, errv>>

Next ==
    \/ StartSetup
    \/ StartDestroy
    \/ ReportProgress
    \/ ExecuteCommand
    \/ CopyFile
    \/ CopyContent
    \/ CopyContentRange
    \/ MkdirAll
    \/ RemoveAll
    \/ GenerateCA
    \/ GenerateClientCert
    \/ GenerateServerCert
    \/ writeFile
    \/ waitForService
    \/ waitForServiceDeadline
    \/ Sleep
    \/ PhaseReturn
    \/ ReturnNil

Spec == Init /\ [][Next]_vars

----------------------------------------------------------------------------
(* Reading the log *)

Controller == config.Controller.IPAddress

IsTransport(e) == e.op \in {"ExecuteCommand", "CopyFile", "CopyContent"}

IsCertOp(e) == e.op \in {"GenerateCA", "GenerateClientCert", "GenerateServerCert"}

\* positions of the log entries that satisfy P
Positions(P(_)) == {i \in 1..Len(log) : P(log[i])}

\* the command holds `systemctl start <unit>`
HasStart(cmd, unit) ==
    \E i \in 1..(Len(cmd) - 2) :
        cmd[i] = "systemctl" /\ cmd[i + 1] = "start" /\ cmd[i + 2] = unit

\* e is a command issued on the controller that starts the unit
StartOf(unit, e) == e.op = "ExecuteCommand" /\ e.host = Controller /\ HasStart(e.cmd, unit)

\* e is an is-active probe of the unit on the controller that was answered `active`
ActiveProbe(unit, e) ==
    /\ e.op = "ExecuteCommand"
    /\ e.host = Controller
    /\ e.cmd = IsActiveCommand(unit)
    /\ e.ok
    /\ "healthy" \in DOMAIN e

HasSuffix(cmd, suffix) ==
    /\ Len(cmd) >= Len(suffix)
    /\ SubSeq(cmd, Len(cmd) - Len(suffix) + 1, Len(cmd)) = suffix

\* the command is `... rm -rf ...` and names the directory
Removes(cmd, dir) ==
    \E i \in 1..(Len(cmd) - 2) :
        cmd[i] = "rm" /\ cmd[i + 1] = "-rf" /\ \E j \in (i + 2)..Len(cmd) : cmd[j] = dir

ControlPlaneUnits == <<"etcd", "kube-apiserver", "kube-controller-manager", "kube-scheduler">>

----------------------------------------------------------------------------
(* C1: SetupCluster runs its phases in the fixed order Prereq, PKI, Config,
   Controller, Workers, Network, Validate.  The phases that returned nil are
   always a prefix of that order (none returns twice); the calls in the log
   never step back to an earlier phase; and whenever a call of a phase has
   been made, or is about to be made, every earlier phase has returned nil. *)
C1_PhaseOrder ==
    /\ Len(phasesDone) <= Len(Phases)
    /\ \A i \in 1..Len(phasesDone) : phasesDone[i] = Phases[i]
    /\ \A j \in 1..Len(log) :
        /\ PhaseRank[log[j].phase] <= Len(phasesDone) + 1 \/ log[j].phase = "Destroy"
        /\ j > 1 => PhaseRank[log[j - 1].phase] <= PhaseRank[log[j].phase]
    /\ (mode = "setup" /\ result.setup = "running" /\ pc <= Len(script))
            => PhaseRank[script[pc].phase] = Len(phasesDone) + 1
    /\ \A i, j \in Positions(LAMBDA e : e.op = "ReportProgress") :
            i # j => log[i].phase # log[j].phase

\* SetupCluster returned nil after all seven phases
C1_Witness == result.setup = "nil" /\ phasesDone = Phases /\ Len(log) > Len(Phases)

----------------------------------------------------------------------------
\* the progress events delivered so far, as (step, total, description)
ProgressEvents ==
    LET at == Positions(LAMBDA e : e.op = "ReportProgress")
        nth[k \in 0..Cardinality(at)] ==
            IF k = 0 THEN <<>>
            ELSE LET i == CHOOSE i \in at : Cardinality({j \in at : j < i}) = k - 1
                 IN  Append(nth[k - 1], log[i].desc)
    IN  nth[Cardinality(at)]

SevenEvents ==
    <<"Checking Prerequisites", "Generating Certificates", "Creating Configurations",
      "Setting Up Control Plane", "Setting Up Worker Nodes", "Setting Up Networking",
      "Validating Cluster">>

\* no Transport call failed and no is-active probe was answered anything but `active`
TransportAlwaysWell == failedCalls = {} /\ ~nonActive

(* C2: when the Transport succeeds on every call and answers `active` to every
   is-active probe, SetupCluster returns nil, and the progress sink has then
   received the seven phase events, each once, in phase order.  (A failure of
   the local certificate authority or of a local write is the only other way
   for SetupCluster to end in an error.) *)
C2_HappyPath ==
    (mode = "setup" /\ result.setup \in {"nil", "error"}) =>
        /\ (TransportAlwaysWell /\ errv.setup.kind \notin {"ErrPKI", "ErrIO"})
                => result.setup = "nil"
        /\ result.setup = "nil" => ProgressEvents = SevenEvents

\* SetupCluster returned nil over a Transport that never failed
C2_Witness ==
    /\ mode = "setup"
    /\ result.setup = "nil"
    /\ TransportAlwaysWell
    /\ ProgressEvents = SevenEvents

----------------------------------------------------------------------------
SSHTestFailed(e) == e.op = "ExecuteCommand" /\ e.cmd = SSHTestCommand /\ ~e.ok

(* C3: when `echo 'SSH test'` fails on any node, SetupCluster returns an error
   from the Prereq phase, no operation of the certificate manager has been
   invoked and the work directory holds no PKI file. *)
C3_SSHTestGate ==
    Positions(SSHTestFailed) # {} =>
        /\ result.setup = "error"
        /\ errv.setup.phase = "Prereq"
        /\ errv.setup.kind = "ErrTransport"
        /\ Positions(IsCertOp) = {}
        /\ DOMAIN localFiles = {}

\* the SSH test failed on a worker, after it succeeded on the controller
C3_Witness ==
    \E i \in Positions(SSHTestFailed) :
        /\ log[i].host # Controller
        /\ \E j \in 1..(i - 1) :
            /\ log[j].op = "ExecuteCommand"
            /\ log[j].host = Controller
            /\ log[j].cmd = SSHTestCommand
            /\ log[j].ok

----------------------------------------------------------------------------
\* a later control-plane unit than etcd has been started
LaterUnitStarted ==
    \E k \in 2..Len(ControlPlaneUnits) :
        Positions(LAMBDA e : StartOf(ControlPlaneUnits[k], e)) # {}

EtcdAnsweredActive == Positions(LAMBDA e : ActiveProbe("etcd", e)) # {}

\* SetupCluster is inside the health gate of etcd
InEtcdGate == mode = "setup" /\ AtStep("waitForService") /\ Cur.unit = "etcd"

(* C4: if every is-active probe of etcd is answered non-active, the Controller
   phase fails with the unhealthy error for etcd, at the 30 s deadline of its
   gate, and no start command for kube-apiserver or a later unit is issued.
   A later unit is started only after etcd answered `active`; while the gate
   of etcd is open nothing later has started and every unsuccessful probe has
   cost at least the polling interval of the 30 s; and the unhealthy error for
   etcd comes from the Controller phase with no later unit started. *)
C4_EtcdGate ==
    /\ LaterUnitStarted => EtcdAnsweredActive
    /\ InEtcdGate =>
        /\ Cur.timeout = 30
        /\ ~LaterUnitStarted
        /\ probes * PollInterval <= elapsed
        /\ elapsed < Cur.timeout + PollInterval + MaxLatency
    /\ (errv.setup.kind = "ErrUnhealthy" /\ errv.setup.what.unit = "etcd") =>
        /\ result.setup = "error"
        /\ errv.setup.phase = "Controller"
        /\ errv.setup.what.timeout = 30
        /\ mode = "setup" => elapsed >= 30 /\ probes >= 1
        /\ ~LaterUnitStarted
        /\ ~EtcdAnsweredActive

\* the gate of etcd ran to its deadline with every probe non-active
C4_Witness ==
    /\ mode = "setup"
    /\ result.setup = "error"
    /\ errv.setup.kind = "ErrUnhealthy"
    /\ errv.setup.what.unit = "etcd"
    /\ probes > 1

----------------------------------------------------------------------------
\* the units that the command starts with `systemctl start <unit>`
UnitsStarted(cmd) ==
    {cmd[i + 2] : i \in {i \in 1..(Len(cmd) - 2) : cmd[i] = "systemctl" /\ cmd[i + 1] = "start"}}

\* positions of the commands issued on the controller
OnController ==
    {i \in 1..Len(log) : log[i].op = "ExecuteCommand" /\ log[i].host = Controller}

(* C5: on the controller the control-plane units are started in the order
   etcd, kube-apiserver, kube-controller-manager, kube-scheduler, each at most
   once, and between the start commands of two consecutive units an is-active
   probe of the earlier unit was answered `active`. *)
C5_StartOrder ==
    LET on == OnController
        started == [i \in on |-> UnitsStarted(log[i].cmd)]
        probed == [i \in on |-> IF "healthy" \in DOMAIN log[i] /\ log[i].ok
                                THEN log[i].cmd ELSE <<>>]
        starts == [k \in 1..Len(ControlPlaneUnits) |->
                        {i \in on : ControlPlaneUnits[k] \in started[i]}]
        active == [k \in 1..Len(ControlPlaneUnits) |->
                        {i \in on : probed[i] = IsActiveCommand(ControlPlaneUnits[k])}]
    IN  \A k \in 1..Len(ControlPlaneUnits) :
            /\ Cardinality(starts[k]) <= 1
            /\ k > 1 =>
                \A j \in starts[k] :
                    \E i \in starts[k - 1], p \in active[k - 1] : i < p /\ p < j

Starts(unit) == Positions(LAMBDA e : StartOf(unit, e))

\* all four units have been started
C5_Witness ==
    /\ \A k \in 1..Len(ControlPlaneUnits) : Starts(ControlPlaneUnits[k]) # {}
    /\ nonActive

----------------------------------------------------------------------------
\* SetupCluster has returned an error and has not been followed by anything
SetupFailed == mode = "setup" /\ result.setup = "error"

(* C6: when a step of SetupCluster fails, SetupCluster returns an error and
   does nothing more.  The step that appends a failed call to the log is the
   step in which SetupCluster returns an error; and once it has returned an
   error no Transport call, certificate operation, local write or progress
   event follows: the only thing that can happen next is that the caller
   invokes DestroyCluster, which by itself changes neither the log nor the
   work directory. *)
C6_FailStop ==
    [][ /\ (mode' = "setup" /\ Len(log') > Len(log) /\ ~log'[Len(log')].ok)
            => result'.setup = "error"
        /\ (mode' = "setup" /\ result'.setup = "error" /\ result.setup = "running")
            => (Len(log') = Len(log) + 1 /\ ~log'[Len(log')].ok)
        /\ SetupFailed
            => /\ mode' = "destroy"
               /\ UNCHANGED <<log, localFiles, workDirExists, phasesDone, errv>>
      ]_vars

\* SetupCluster failed in the Workers phase, after the earlier phases had acted
C6_Witness ==
    /\ SetupFailed
    /\ errv.setup.phase = "Workers"
    /\ errv.setup.kind = "ErrTransport"
    /\ ~log[Len(log)].ok
    /\ Len(phasesDone) = 4

----------------------------------------------------------------------------
\* the call is an is-active probe of a health gate
IsProbeCall(c) == Len(c.cmd) = 4 /\ SubSeq(c.cmd, 1, 3) = <<"sudo", "systemctl", "is-active">>

(* C7 as stated: no Transport error is swallowed or retried by SetupCluster,
   health-gate probes included: as soon as a Transport call has failed
   SetupCluster has returned an error, and no failed call is issued again. *)
C7_NoSwallowNoRetry ==
    mode = "setup" => /\ failedCalls # {} => result.setup = "error"
                      /\ reissued = {}

(* C7 amended: every Transport call of SetupCluster other than an is-active
   probe of a health gate that fails makes SetupCluster return an error at once
   and is not issued again.  A failed is-active probe is treated as a
   non-active answer: it is swallowed and the same probe is issued again
   after the polling interval, until the gate's deadline. *)
C7_OnlyProbesRetried ==
    mode = "setup" =>
        /\ \A c \in failedCalls :
            \/ IsProbeCall(c)
            \/ /\ result.setup = "error"
               /\ c \notin reissued
               /\ ~log[Len(log)].ok
               /\ IsTransport(log[Len(log)])
               /\ log[Len(log)].host = c.host
        /\ \A c \in reissued : IsProbeCall(c)
        /\ Cardinality({c \in failedCalls : ~IsProbeCall(c)}) <= 1

\* a probe failed and was issued again; later another Transport call failed
C7_Witness ==
    /\ SetupFailed
    /\ \E c \in reissued : IsProbeCall(c)
    /\ \E c \in failedCalls : ~IsProbeCall(c)

----------------------------------------------------------------------------
DestroyReturned == mode = "destroy" /\ result.destroy \in {"nil", "error"}

\* the command was issued on the node by DestroyCluster
Cleaned(node, cmd) ==
    \E i \in 1..Len(log) :
        /\ log[i].phase = "Destroy"
        /\ log[i].op = "ExecuteCommand"
        /\ log[i].host = node.IPAddress
        /\ log[i].cmd = cmd

(* C8 as stated: DestroyCluster is best-effort: whatever Transport errors
   occurred, when it returns every cleanup command has been issued on every
   node and the removal of the local work directory has been attempted. *)
C8_BestEffort ==
    DestroyReturned =>
        /\ \A n \in 1..Len(Fleet(config)), c \in 1..Len(DestroyCommands) :
                Cleaned(Fleet(config)[n], DestroyCommands[c])
        /\ Positions(LAMBDA e : e.op = "RemoveAll") # {}

(* C9 as stated: every remote command that DestroyCluster issues is suffixed
   with `|| true`. *)
C9_AllSuffixed ==
    \A i \in 1..Len(log) :
        (log[i].phase = "Destroy" /\ log[i].op = "ExecuteCommand")
            => HasSuffix(log[i].cmd, <<"||", "true">>)

(* C10: after DestroyCluster returns nil, on every node of the fleet a command
   that succeeded removed each of the nine data and configuration directories,
   and the local work directory no longer exists. *)
C10_Destroyed ==
    result.destroy = "nil" =>
        /\ ~workDirExists
        /\ DOMAIN localFiles = {}
        /\ \A n \in 1..Len(Fleet(config)), d \in 1..Len(DestroyDirs) :
            \E i \in 1..Len(log) :
                /\ log[i].phase = "Destroy"
                /\ log[i].op = "ExecuteCommand"
                /\ log[i].host = Fleet(config)[n].IPAddress
                /\ log[i].ok
                /\ Removes(log[i].cmd, DestroyDirs[d])

\* DestroyCluster returned nil after a SetupCluster that had set up the fleet
C10_Witness ==
    /\ result.destroy = "nil"
    /\ result.setup = "nil"
    /\ Len(DestroyDirs) = 9

----------------------------------------------------------------------------
(* What the removals of DestroyCluster cover *)

\* the names, relative to the directory they are uploaded to, of the files
\* that SetupCluster uploads
UploadNames ==
    {"ca.pem", "ca-key.pem", "kubernetes.pem", "kubernetes-key.pem", "service-account.pem",
     "service-account-key.pem", "encryption-config.yaml", "kube-controller-manager.kubeconfig",
     "kube-scheduler.kubeconfig", "kube-proxy.kubeconfig", "config.toml",
     "net.d/10-bridge.conf", "net.d/99-loopback.conf", "kubelet-config.yaml",
     "kube-proxy-config.yaml", "coredns.yaml", "test-app.yaml"}
    \cup UNION {{w.Name \o ".pem", w.Name \o "-key.pem", w.Name \o ".kubeconfig"} :
                    w \in {config.Workers[i] : i \in 1..Len(config.Workers)}}

\* what the shell puts in place of the `*` of /etc/systemd/system/kube*.service
UnitStems == {"-apiserver", "-controller-manager", "-scheduler", "let", "-proxy", ""}

\* the paths that an argument of `rm -f` names, after the shell's expansion
Expansion(arg) ==
    IF arg = "/etc/systemd/system/kube*.service"
    THEN {"/etc/systemd/system/kube" \o stem \o ".service" : stem \in UnitStems}
    ELSE {arg}

\* the uploaded paths that `rm -rf dir` takes away
Under(dir) == {dir \o "/" \o name : name \in UploadNames}

\* the paths removed by one command
RemovedBy(cmd) ==
    IF Len(cmd) >= 3 /\ cmd[1] = "sudo" /\ cmd[2] = "rm" /\ cmd[3] = "-rf"
    THEN UNION {Under(cmd[k]) \cup {cmd[k]} : k \in 4..Len(cmd)}
    ELSE IF Len(cmd) >= 3 /\ cmd[1] = "sudo" /\ cmd[2] = "rm" /\ cmd[3] = "-f"
    THEN UNION {Expansion(cmd[k]) : k \in 4..Len(cmd)}
    ELSE {}

\* the paths removed on the host by the commands of DestroyCluster that succeeded
RemovedOn(host) ==
    UNION {RemovedBy(log[i].cmd) :
            i \in {i \in 1..Len(log) : /\ log[i].phase = "Destroy"
                                       /\ log[i].op = "ExecuteCommand"
                                       /\ log[i].host = host
                                       /\ log[i].ok}}

\* positions of the uploads of SetupCluster that wrote something
Uploads ==
    {i \in 1..Len(log) : /\ log[i].op \in {"CopyFile", "CopyContent"}
                         /\ log[i].phase # "Destroy"
                         /\ log[i].wrote # {}}

(* C11 as stated: every remote file that SetupCluster wrote on a node through
   CopyFile or CopyContent has been deleted from that node when a subsequent
   DestroyCluster returns nil. *)
C11_UploadsDeleted ==
    result.destroy = "nil" =>
        \A i \in Uploads : log[i].wrote \subseteq RemovedOn(log[i].host)

\* the uploads that a DestroyCluster that returned nil left on their node
C11_LeftBehind ==
    IF result.destroy = "nil"
    THEN UNION {log[i].wrote \ RemovedOn(log[i].host) : i \in Uploads}
    ELSE {}

----------------------------------------------------------------------------
\* the command holds the words of `sub` next to each other
Contains(cmd, sub) ==
    \E i \in 1..(Len(cmd) - Len(sub) + 1) : SubSeq(cmd, i, i + Len(sub) - 1) = sub

\* ip route add <b.podCIDR> via <b.IP>
RouteTo(b) == <<"ip", "route", "add", b.PodCIDR, "via", b.IPAddress>>

\* positions of the commands issued in the Network phase
InNetwork == {i \in 1..Len(log) : log[i].phase = "Network" /\ log[i].op = "ExecuteCommand"}

WorkerSet == {config.Workers[i] : i \in 1..Len(config.Workers)}

(* C12: when the Network phase has returned, for every ordered pair (a, b) of
   distinct workers (workers are told apart by name) the command
   `ip route add <b.podCIDR> via <b.IP>` has been issued on a during that
   phase; and every route command of the phase was issued on a worker, never
   on the controller, and is the route to another worker. *)
C12_Routes ==
    /\ (\E k \in 1..Len(phasesDone) : phasesDone[k] = "Network") =>
        \A a, b \in WorkerSet :
            a.Name # b.Name =>
                \E i \in InNetwork : log[i].host = a.IPAddress /\ Contains(log[i].cmd, RouteTo(b))
    /\ \A i \in InNetwork :
        Contains(log[i].cmd, <<"ip", "route">>) =>
            /\ log[i].host # Controller
            /\ \E a, b \in WorkerSet :
                /\ a.Name # b.Name
                /\ log[i].host = a.IPAddress
                /\ Contains(log[i].cmd, RouteTo(b))

\* the Network phase returned on a fleet of two workers
C12_Witness ==
    /\ Cardinality(WorkerSet) = 2
    /\ \E k \in 1..Len(phasesDone) : phasesDone[k] = "Network"
    /\ Cardinality({i \in InNetwork : Contains(log[i].cmd, <<"ip", "route", "add">>)}) = 2

----------------------------------------------------------------------------
\* the files that the controller must hold before kube-apiserver starts
ControllerFiles ==
    {"/etc/etcd/" \o f : f \in {"ca.pem", "kubernetes.pem", "kubernetes-key.pem"}}
    \cup {"/var/lib/kubernetes/" \o f :
            f \in {"ca.pem", "ca-key.pem", "service-account.pem", "service-account-key.pem",
                   "kubernetes.pem", "kubernetes-key.pem", "encryption-config.yaml",
                   "kube-controller-manager.kubeconfig", "kube-scheduler.kubeconfig"}}
    \cup {"/etc/systemd/system/" \o u \o ".service" :
            u \in {ControlPlaneUnits[k] : k \in 1..Len(ControlPlaneUnits)}}

\* the paths written on the controller by the uploads before position j
WrittenBefore(j) ==
    UNION {log[i].wrote : i \in {i \in Uploads : i < j /\ log[i].host = Controller}}

(* C13 as stated: before the command that starts kube-apiserver is issued,
   every normative controller file has been written on the controller. *)
C13_FilesBeforeApiserver ==
    \A j \in Starts("kube-apiserver") : ControllerFiles \subseteq WrittenBefore(j)

\* the normative files that were not on the controller when kube-apiserver started
C13_Missing ==
    UNION {ControllerFiles \ WrittenBefore(j) : j \in Starts("kube-apiserver")}

----------------------------------------------------------------------------
PKIDone == \E k \in 1..Len(phasesDone) : phasesDone[k] = "PKI"

\* the names for which the PKI phase issues a certificate
IssuedNames ==
    {"admin", "kube-controller-manager", "kube-proxy", "kube-scheduler", "service-account",
     "kubernetes"} \cup {w.Name : w \in WorkerSet}

\* the work directory holds the file with the mode
Holds(name, perm) == name \in DOMAIN localFiles /\ localFiles[name].mode = perm

(* C17: after the PKI phase has succeeded, and until DestroyCluster is called,
   for every issued name N the work directory holds N.pem with mode 0644 and
   N-key.pem with mode 0600, together with ca.pem (0644), ca-key.pem (0600)
   and ca-config.json (0644). *)
C17_PKIFiles ==
    (mode = "setup" /\ PKIDone) =>
        /\ \A n \in IssuedNames : Holds(n \o ".pem", "0644") /\ Holds(n \o "-key.pem", "0600")
        /\ Holds("ca.pem", "0644")
        /\ Holds("ca-key.pem", "0600")
        /\ Holds("ca-config.json", "0644")

\* the PKI phase returned nil on a fleet of two workers of different names
C17_Witness ==
    /\ mode = "setup"
    /\ PKIDone
    /\ Cardinality(IssuedNames) = 8
    /\ Holds("worker-1-key.pem", "0600")

----------------------------------------------------------------------------
\* positions of the operations of the certificate manager that wrote a file
Issuances == {i \in 1..Len(log) : IsCertOp(log[i]) /\ log[i].wrote # {}}

(* C18 as stated: within one SetupCluster run no PKI file of the work
   directory is written more than once, for every configuration the loader
   accepts: no two operations of the certificate manager write the same file. *)
C18_WrittenOnce ==
    \A i, j \in Issuances : i # j => log[i].wrote \cap log[j].wrote = {}

----------------------------------------------------------------------------
\* the SAN list of the server certificate
KubernetesSANs ==
    <<"127.0.0.1", "10.32.0.1", config.Controller.IPAddress, config.Controller.Hostname,
      "kubernetes", "kubernetes.default", "kubernetes.default.svc",
      "kubernetes.default.svc.cluster", "kubernetes.default.svc.cluster.local">>

\* positions of the requests for the server certificate `kubernetes`
ServerRequests ==
    {i \in 1..Len(log) : log[i].op = "GenerateServerCert" /\ log[i].name = "kubernetes"}

(* C19: the server certificate named `kubernetes` is requested with the SAN
   list 127.0.0.1, 10.32.0.1, the controller IP, the controller hostname,
   kubernetes, kubernetes.default, kubernetes.default.svc,
   kubernetes.default.svc.cluster, kubernetes.default.svc.cluster.local, in
   every configuration; the certificate written carries that list; no other
   server certificate is requested; and the PKI phase does not return without
   the request. *)
C19_ServerSANs ==
    /\ \A i \in 1..Len(log) : log[i].op = "GenerateServerCert" => i \in ServerRequests
    /\ \A i \in ServerRequests : log[i].hosts = KubernetesSANs
    /\ (mode = "setup" /\ "kubernetes.pem" \in DOMAIN localFiles)
            => localFiles["kubernetes.pem"].content.hosts = KubernetesSANs
    /\ PKIDone => Cardinality(ServerRequests) = 1

\* the server certificate was issued
C19_Witness ==
    /\ PKIDone
    /\ \E i \in ServerRequests : log[i].ok /\ "kubernetes.pem" \in log[i].wrote

----------------------------------------------------------------------------
(* C20 as stated: every Transport call made while SetupCluster runs, in every
   phase, carries the context that was passed to SetupCluster. *)
C20_ContextThreaded ==
    \A i \in 1..Len(log) :
        (IsTransport(log[i]) /\ log[i].phase # "Destroy") => log[i].ctx = "ctx"

----------------------------------------------------------------------------
(* config.go: SaveConfig and LoadClusterConfig.  A YAML document is a sequence
   of [key, node] entries; a node is a scalar (with its tag and its text), a
   mapping or a sequence. *)

StrNode(s) == [kind |-> "scalar", tag |-> "!!str", text |-> s]

\* an int is written in decimal
IntNode(n) == [kind |-> "scalar", tag |-> "!!int", text |-> ToString(n)]

\* the string fields of ClusterConfig with their yaml keys, in the order of the struct
StringFields ==
    <<[field |-> "ClusterName",       key |-> "cluster_name"],
      [field |-> "KubernetesVersion", key |-> "kubernetes_version"],
      [field |-> "EtcdVersion",       key |-> "etcd_version"],
      [field |-> "ContainerdVersion", key |-> "containerd_version"],
      [field |-> "CNIVersion",        key |-> "cni_version"],
      [field |-> "CoreDNSVersion",    key |-> "coredns_version"],
      [field |-> "PodCIDR",           key |-> "pod_cidr"],
      [field |-> "ServiceCIDR",       key |-> "service_cidr"],
      [field |-> "ClusterDNS",        key |-> "cluster_dns"],
      [field |-> "WorkDir",           key |-> "work_dir"],
      [field |-> "SSHKey",            key |-> "ssh_key"],
      [field |-> "SSHUser",           key |-> "ssh_user"]>>

\* a Node whose ip_address is written under the key `ip`
MarshalNodeShortKey(node) ==
    [kind |-> "mapping",
     entries |-> <<[key |-> "name", node |-> StrNode(node.Name)],
                   [key |-> "ip", node |-> StrNode(node.IPAddress)],
                   [key |-> "hostname", node |-> StrNode(node.Hostname)]>>
                 \o (IF node.PodCIDR = "" THEN <<>>
                     ELSE <<[key |-> "pod_cidr", node |-> StrNode(node.PodCIDR)]>>)]

\* yaml.Marshal of a Node: pod_cidr has omitempty
MarshalNode(node) ==
    [kind |-> "mapping",
     entries |-> <<[key |-> "name", node |-> StrNode(node.Name)],
                   [key |-> "ip_address", node |-> StrNode(node.IPAddress)],
                   [key |-> "hostname", node |-> StrNode(node.Hostname)]>>
                 \o (IF node.PodCIDR = "" THEN <<>>
                     ELSE <<[key |-> "pod_cidr", node |-> StrNode(node.PodCIDR)]>>)]

\* yaml.Marshal of a CertificateConfig
MarshalCertificates(certs) ==
    [kind |-> "mapping",
     entries |-> <<[key |-> "country", node |-> StrNode(certs.Country)],
                   [key |-> "state", node |-> StrNode(certs.State)],
                   [key |-> "city", node |-> StrNode(certs.City)],
                   [key |-> "organization", node |-> StrNode(certs.Organization)],
                   [key |-> "organizational_unit", node |-> StrNode(certs.OrganizationalUnit)],
                   [key |-> "validity_days", node |-> IntNode(certs.ValidityDays)]>>]

\* yaml.Marshal(config)
Marshal(cfg) ==
    [i \in 1..Len(StringFields) |->
        [key |-> StringFields[i].key, node |-> StrNode(cfg[StringFields[i].field])]]
    \o <<[key |-> "controller", node |-> MarshalNode(cfg.Controller)],
         [key |-> "workers",
          node |-> [kind |-> "sequence",
                    items |-> [i \in 1..Len(cfg.Workers) |-> MarshalNode(cfg.Workers[i])]]],
         [key |-> "certificates", node |-> MarshalCertificates(cfg.Certificates)]>>

\* the entry of a mapping under a key
Has(entries, key) == \E i \in 1..Len(entries) : entries[i].key = key

Lookup(entries, key) == entries[CHOOSE i \in 1..Len(entries) : entries[i].key = key].node

\* decoding into a string field: the zero value when the key is absent
DecodeString(entries, key) == IF Has(entries, key) THEN Lookup(entries, key).text ELSE ""

\* the ints that validity_days is read back from
MaxDays == 365

\* decoding into an int field
DecodeInt(entries, key) ==
    IF Has(entries, key)
    THEN LET text == Lookup(entries, key).text
         IN  CHOOSE n \in (0 - MaxDays)..MaxDays : ToString(n) = text
    ELSE 0

UnmarshalNode(entries) ==
    [Name      |-> DecodeString(entries, "name"),
     IPAddress |-> DecodeString(entries, "ip_address"),
     Hostname  |-> DecodeString(entries, "hostname"),
     PodCIDR   |-> DecodeString(entries, "pod_cidr")]

UnmarshalCertificates(entries) ==
    [Country            |-> DecodeString(entries, "country"),
     State              |-> DecodeString(entries, "state"),
     City               |-> DecodeString(entries, "city"),
     Organization       |-> DecodeString(entries, "organization"),
     OrganizationalUnit |-> DecodeString(entries, "organizational_unit"),
     ValidityDays       |-> DecodeInt(entries, "validity_days")]

\* yaml.Unmarshal(data, &config) of a document that SaveConfig wrote
Unmarshal(doc) ==
    [ClusterName       |-> DecodeString(doc, "cluster_name"),
     KubernetesVersion |-> DecodeString(doc, "kubernetes_version"),
     EtcdVersion       |-> DecodeString(doc, "etcd_version"),
     ContainerdVersion |-> DecodeString(doc, "containerd_version"),
     CNIVersion        |-> DecodeString(doc, "cni_version"),
     CoreDNSVersion    |-> DecodeString(doc, "coredns_version"),
     PodCIDR           |-> DecodeString(doc, "pod_cidr"),
     ServiceCIDR       |-> DecodeString(doc, "service_cidr"),
     ClusterDNS        |-> DecodeString(doc, "cluster_dns"),
     WorkDir           |-> DecodeString(doc, "work_dir"),
     SSHKey            |-> DecodeString(doc, "ssh_key"),
     SSHUser           |-> DecodeString(doc, "ssh_user"),
     Controller        |-> IF Has(doc, "controller")
                           THEN UnmarshalNode(Lookup(doc, "controller").entries)
                           ELSE UnmarshalNode(<<>>),
     Workers           |-> IF Has(doc, "workers")
                           THEN [i \in 1..Len(Lookup(doc, "workers").items) |->
                                    UnmarshalNode(Lookup(doc, "workers").items[i].entries)]
                           ELSE <<>>,
     Certificates      |-> IF Has(doc, "certificates")
                           THEN UnmarshalCertificates(Lookup(doc, "certificates").entries)
                           ELSE UnmarshalCertificates(<<>>)]

----------------------------------------------------------------------------
\* the message of the first check that fails, "" when none does
RECURSIVE FirstFailure(_)
FirstFailure(checks) ==
    IF checks = <<>> THEN ""
    ELSE IF Head(checks).bad THEN Head(checks).msg
    ELSE FirstFailure(Tail(checks))

\* the checks on the string fields, last field first
StringChecksReversed(cfg) ==
    [i \in 1..Len(StringFields) |->
        [bad |-> cfg[StringFields[Len(StringFields) + 1 - i].field] = "",
         msg |-> StringFields[Len(StringFields) + 1 - i].key \o " is required"]]

\* if config.X == "" { return config, fmt.Errorf("x is required") }, field by field
StringChecks(cfg) ==
    [i \in 1..Len(StringFields) |->
        [bad |-> cfg[StringFields[i].field] = "",
         msg |-> StringFields[i].key \o " is required"]]

\* the checks of LoadClusterConfig on the nodes and on the certificate profile
NodeChecks(cfg) ==
    <<[bad |-> cfg.Controller.IPAddress = "" \/ cfg.Controller.Name = "",
       msg |-> "controller configuration is incomplete"],
      [bad |-> Len(cfg.Workers) = 0, msg |-> "at least one worker node is required"]>>
    \o [i \in 1..Len(cfg.Workers) |->
            [bad |-> \/ cfg.Workers[i].IPAddress = ""
                     \/ cfg.Workers[i].Name = ""
                     \/ cfg.Workers[i].PodCIDR = "",
             msg |-> "worker " \o cfg.Workers[i].Name \o " configuration is incomplete"]]
    \o <<[bad |-> cfg.Certificates.Country = "" \/ cfg.Certificates.ValidityDays <= 0,
          msg |-> "certificate configuration is incomplete"]>>

\* the validation of LoadClusterConfig: the error it returns, "" for none
Validate(cfg) == FirstFailure(StringChecks(cfg) \o NodeChecks(cfg))

\* SaveConfig(config, outputPath)
SaveConfig ==
    /\ mode = "idle"
    /\ \E written \in BOOLEAN :
        configFile' = IF written THEN [exists |-> TRUE, doc |-> Marshal(config)] ELSE configFile
    /\ UNCHANGED <<config, remote, term, loaded, ctxDone, session, answer, workDirExists, localFiles, mode, script, pc, ranged, elapsed,
                   probes, log, phasesDone, failedCalls, reissued, nonActive, result, errv>>

\* LoadClusterConfig(configPath)
LoadClusterConfig ==
    /\ mode = "idle"
    /\ IF ~configFile.exists
       THEN /\ loaded' = [called |-> TRUE, config |-> Unmarshal(<<>>),
                          err |-> "failed to read config file"]
            /\ UNCHANGED workDirExists
       ELSE LET cfg == Unmarshal(configFile.doc)
            IN  IF Validate(cfg) # ""
                THEN /\ loaded' = [called |-> TRUE, config |-> cfg, err |-> Validate(cfg)]
                     /\ UNCHANGED workDirExists
                ELSE \E made \in BOOLEAN :
                        /\ workDirExists' = (workDirExists \/ made)
                        /\ loaded' = [called |-> TRUE, config |-> cfg,
                                      err |-> IF workDirExists \/ made THEN ""
                                              ELSE "failed to create work directory"]
    /\ UNCHANGED <<config, remote, term, configFile, ctxDone, session, answer, localFiles, mode, script, pc, ranged, elapsed,
                   probes, log, phasesDone, failedCalls, reissued, nonActive, result, errv>>

----------------------------------------------------------------------------
(* The configurations handed to SaveConfig *)

\* how many string fields of a configuration are left empty at once
MaxBlank == 2

FieldNames == {StringFields[i].field : i \in 1..Len(StringFields)}

\* cfg with the fields of `blank` emptied
Blanked(cfg, blank) == [f \in DOMAIN cfg |-> IF f \in blank THEN "" ELSE cfg[f]]

WorkerLists ==
    {<<>>,
     <<DefaultWorker(0)>>,
     <<DefaultWorker(0), DefaultWorker(1)>>,
     <<DefaultWorker(0), [DefaultWorker(1) EXCEPT !.Name = "worker-0"]>>,
     <<[DefaultWorker(0) EXCEPT !.IPAddress = "10.240.0.10"]>>,
     <<DefaultWorker(0), [DefaultWorker(1) EXCEPT !.PodCIDR = ""]>>,
     <<[DefaultWorker(0) EXCEPT !.Name = ""]>>}

ControllerNodes ==
    {GenerateDefaultConfig(1).Controller,
     [GenerateDefaultConfig(1).Controller EXCEPT !.IPAddress = ""]}

CertificateProfiles ==
    {GenerateDefaultConfig(1).Certificates,
     [GenerateDefaultConfig(1).Certificates EXCEPT !.ValidityDays = 0],
     [GenerateDefaultConfig(1).Certificates EXCEPT !.Country = ""]}

\* the default configuration with some string fields emptied and a list of
\* workers, or with a list of workers, a controller and a certificate profile
Candidates ==
    {[Blanked(GenerateDefaultConfig(1), blank) EXCEPT !.Workers = ws] :
        blank \in {b \in SUBSET FieldNames : Cardinality(b) <= MaxBlank}, ws \in WorkerLists}
    \cup {[GenerateDefaultConfig(1)
            EXCEPT !.Workers = ws, !.Controller = ct, !.Certificates = ce] :
            ws \in WorkerLists, ct \in ControllerNodes, ce \in CertificateProfiles}

ConfigInit ==
    /\ config \in Candidates
    /\ ctxDone = FALSE
    /\ session = NoSession
    /\ remote = NoRemote
    /\ answer = "none"
    /\ term = NoTerminal
    /\ configFile = NoFile
    /\ loaded = NotLoaded
    /\ workDirExists \in BOOLEAN
    /\ localFiles = <<>>
    /\ mode = "idle"
    /\ script = <<>>
    /\ pc = 1
    /\ ranged = {}
    /\ elapsed = 0
    /\ probes = 0
    /\ log = <<>>
    /\ phasesDone = <<>>
    /\ failedCalls = {}
    /\ reissued = {}
    /\ nonActive = FALSE
    /\ result = [setup |-> "none", destroy |-> "none"]
    /\ errv = [setup |-> NoError, destroy |-> NoError]

ConfigNext ==
    \/ SaveConfig
    \/ LoadClusterConfig

ConfigSpec == ConfigInit /\ [][ConfigNext]_vars

----------------------------------------------------------------------------
\* LoadClusterConfig was called and found the file
Read == loaded.called /\ loaded.err # "failed to read config file"

\* LoadClusterConfig returned a configuration and a nil error
Accepted == loaded.called /\ loaded.err = ""

\* the invariants of the data model
DataModelInvariants(cfg) ==
    /\ \A f \in FieldNames : cfg[f] # ""
    /\ cfg.Controller.Name # ""
    /\ cfg.Controller.IPAddress # ""
    /\ Len(cfg.Workers) >= 1
    /\ \A i \in 1..Len(cfg.Workers) :
        /\ cfg.Workers[i].Name # ""
        /\ cfg.Workers[i].IPAddress # ""
        /\ cfg.Workers[i].PodCIDR # ""
        /\ cfg.Workers[i].IPAddress # cfg.Controller.IPAddress
        /\ \A j \in 1..Len(cfg.Workers) : i # j => cfg.Workers[i].Name # cfg.Workers[j].Name
    /\ cfg.Certificates.Country # ""
    /\ cfg.Certificates.ValidityDays > 0

(* C14 as stated: every configuration that LoadClusterConfig accepts satisfies
   the invariants of the data model: every required string is non-empty, there
   is at least one worker, the controller IP differs from every worker IP,
   worker names are pairwise distinct and the validity is more than zero
   days. *)
C14_AcceptedIsValid == Accepted => DataModelInvariants(loaded.config)

----------------------------------------------------------------------------
\* the first k string fields of the configuration are set
SetUpTo(cfg, k) == \A j \in 1..k : cfg[StringFields[j].field] # ""

(* C15: LoadClusterConfig rejects a configuration with a missing required
   field with an error that names the field; when several are missing the
   error names the first in the fixed order (the twelve strings from
   cluster_name to ssh_user, then the controller, then the worker list); an
   empty worker list gives `at least one worker node is required`; and the
   configuration returned with the error is the rejected one, never a valid
   one. *)
C15_FirstMissingNamed ==
    Read =>
        /\ \A k \in 1..Len(StringFields) :
            (config[StringFields[k].field] = "" /\ SetUpTo(config, k - 1)) =>
                /\ loaded.err = StringFields[k].key \o " is required"
                /\ loaded.config[StringFields[k].field] = ""
        /\ (config.ClusterName = "") => loaded.err = "cluster_name is required"
        /\ (/\ SetUpTo(config, Len(StringFields))
            /\ config.Controller.Name # ""
            /\ config.Controller.IPAddress # ""
            /\ config.Workers = <<>>) =>
                /\ loaded.err = "at least one worker node is required"
                /\ loaded.config.Workers = <<>>
        /\ (~SetUpTo(config, Len(StringFields)) \/ config.Workers = <<>>) =>
                ~Accepted /\ ~DataModelInvariants(loaded.config)

\* two string fields and the worker list are missing: the error names the first
C15_Witness ==
    /\ Read
    /\ config.EtcdVersion = ""
    /\ config.SSHUser = ""
    /\ config.Workers = <<>>
    /\ loaded.err = "etcd_version is required"

----------------------------------------------------------------------------
(* C16: for every valid configuration c, LoadClusterConfig applied to the
   file written by SaveConfig(c) returns a configuration equal to c in every
   field, and it succeeds (unless the work directory is absent and cannot be
   created).  The configuration read back equals c also when c is not
   valid. *)
C16_RoundTrip ==
    Read =>
        /\ loaded.config = config
        /\ DataModelInvariants(config) =>
            \/ Accepted /\ workDirExists
            \/ loaded.err = "failed to create work directory" /\ ~workDirExists

\* a valid configuration with two workers was saved and loaded
C16_Witness ==
    /\ Read
    /\ DataModelInvariants(config)
    /\ Len(config.Workers) = 2
    /\ Accepted
    /\ loaded.config.Workers[2].PodCIDR = "10.200.1.0/24"
    /\ loaded.config.Certificates.ValidityDays = 365

----------------------------------------------------------------------------
\* positions of the operations of the certificate manager
CertOps == {i \in 1..Len(log) : log[i].phase = "PKI" /\ IsCertOp(log[i])}

\* what the certificate manager was asked for: the CA, or a leaf by kind and name
Asked(e) == IF e.op = "GenerateCA" THEN <<"GenerateCA", "ca">> ELSE <<e.op, e.name>>

\* the issuances of the PKI phase in their order of the specification
IssuanceOrder ==
    << <<"GenerateCA", "ca">> >>
    \o [i \in 1..5 |->
            <<"GenerateClientCert",
              <<"admin", "kube-controller-manager", "kube-proxy", "kube-scheduler",
                "service-account">>[i]>>]
    \o [i \in 1..Len(config.Workers) |-> <<"GenerateClientCert", config.Workers[i].Name>>]
    \o << <<"GenerateServerCert", "kubernetes">> >>

(* C28: the PKI phase issues the CA first, then the client certificates for
   admin, kube-controller-manager, kube-proxy, kube-scheduler, service-account
   and each worker in configured order, then the server certificate
   kubernetes: what has been asked of the certificate manager is always a
   prefix of that list, every request but the last one asked has succeeded
   (so no leaf is asked for before the CA succeeded and nothing is asked for
   after a failure), and the phase returns only after the whole list. *)
C28_PKIOrder ==
    /\ \A i \in 1..Len(log) : IsCertOp(log[i]) => log[i].phase = "PKI"
    /\ LET ops == CertOps
           first == CHOOSE i \in ops : \A j \in ops : i <= j
           order == IssuanceOrder
       IN  \A i \in ops :
               /\ i - first + 1 <= Len(order)
               /\ Asked(log[i]) = order[i - first + 1]
               /\ i > first => (i - 1) \in ops /\ log[i - 1].ok
    /\ PKIDone =>
            /\ Cardinality(CertOps) = Len(IssuanceOrder)
            /\ \A i \in CertOps : log[i].ok

\* on a fleet of two workers of different names the issuance of the second
\* worker's certificate failed, after the CA and six client certificates
C28_Witness ==
    /\ Cardinality(CertOps) = 8
    /\ \E i \in CertOps : ~log[i].ok /\ log[i].op = "GenerateClientCert" /\ log[i].name = "worker-1"
    /\ errv.setup.phase = "PKI"
    /\ result.setup = "error"

----------------------------------------------------------------------------
\* positions of the kubeconfigs rendered in the Config phase
Kubeconfigs ==
    {i \in 1..Len(log) : log[i].phase = "Config" /\ log[i].op = "writeFile"
                         /\ log[i].content.kind = "Config"}

ServerURL(ip) == "https://" \o ip \o ":6443"

(* C29: in the Config phase the kubeconfig rendered for each of admin,
   kube-controller-manager, kube-scheduler and kube-proxy has the server URL
   https://<controller IP>:6443, and the kubeconfig rendered for each worker
   (the k-th kubeconfig rendered, for the k-th worker) has the server URL
   https://<that worker's IP>:6443; the phase returns only after all of them
   were rendered. *)
C29_ServerURLs ==
    LET ks == Kubeconfigs
        first == CHOOSE i \in ks : \A j \in ks : i <= j
        n == Len(config.Workers)
    IN  /\ \A i \in ks :
            LET k == i - first + 1
            IN  IF k <= n
                THEN /\ log[i].content.user = config.Workers[k].Name
                     /\ log[i].content.server = ServerURL(config.Workers[k].IPAddress)
                ELSE /\ log[i].content.user \in
                            {"admin", "kube-controller-manager", "kube-scheduler", "kube-proxy"}
                     /\ log[i].content.server = ServerURL(config.Controller.IPAddress)
        /\ (\E p \in 1..Len(phasesDone) : phasesDone[p] = "Config") =>
                {log[i].content.user : i \in {j \in ks : j - first + 1 > n}}
                    = {"admin", "kube-controller-manager", "kube-scheduler", "kube-proxy"}
                /\ Cardinality(ks) = n + 4

\* the Config phase returned on a fleet of two workers: the second worker's
\* kubeconfig and the one of kube-proxy are in the work directory
C29_Witness ==
    /\ mode = "setup"
    /\ \E p \in 1..Len(phasesDone) : phasesDone[p] = "Config"
    /\ Len(config.Workers) = 2
    /\ "worker-1.kubeconfig" \in DOMAIN localFiles
    /\ localFiles["worker-1.kubeconfig"].content.server = ServerURL(config.Workers[2].IPAddress)
    /\ localFiles["kube-proxy.kubeconfig"].content.server = ServerURL(config.Controller.IPAddress)

----------------------------------------------------------------------------
\* positions of the calls of DestroyCluster
DestroyCalls == {i \in 1..Len(log) : log[i].phase = "Destroy"}

\* what a cleanup command does
Cleanup(cmd) ==
    IF cmd[2] = "systemctl" THEN cmd[3]
    ELSE IF cmd[2] = "rm" /\ cmd[3] = "-rf" THEN "directories"
    ELSE IF cmd[2] = "rm" /\ cmd[4] = "/usr/local/bin/etcd*" THEN "binaries"
    ELSE IF cmd[2] = "rm" /\ cmd[4] = "/etc/systemd/system/etcd.service" THEN "unit files"
    ELSE "other"

CleanupOrder ==
    <<"stop", "disable", "directories", "binaries", "unit files", "daemon-reload", "reset-failed">>

(* C30: DestroyCluster visits the nodes in fleet order (the controller, then
   the workers in configured order); on each node it issues stop, disable,
   directory removal, binary removal, unit-file removal, daemon-reload and
   reset-failed in that order; the local work directory is removed only after
   the last command on the last node (has succeeded), and DestroyCluster
   returns nil only after that removal. *)
C30_DestroyOrder ==
    LET calls == DestroyCalls
        first == CHOOSE i \in calls : \A j \in calls : i <= j
        nodes == <<config.Controller>> \o config.Workers
        n == Len(CleanupOrder)
    IN  /\ \A i \in calls :
            LET k == i - first
            IN  /\ k <= n * Len(nodes)
                /\ IF k < n * Len(nodes)
                   THEN /\ log[i].op = "ExecuteCommand"
                        /\ log[i].host = nodes[(k \div n) + 1].IPAddress
                        /\ Cleanup(log[i].cmd) = CleanupOrder[(k % n) + 1]
                   ELSE log[i].op = "RemoveAll"
                /\ k > 0 => (i - 1) \in calls /\ log[i - 1].ok
        /\ result.destroy = "nil" =>
                /\ Cardinality(calls) = n * Len(nodes) + 1
                /\ \A i \in calls : log[i].ok

\* on a fleet of three nodes the removal of the work directory was
\* attempted, after the 21 commands
C30_Witness ==
    /\ Len(config.Workers) = 2
    /\ Cardinality(DestroyCalls) = 22
    /\ \E i \in DestroyCalls : log[i].op = "RemoveAll"

----------------------------------------------------------------------------
\* positions of the Transport calls of the Workers phase
WorkerCalls == {i \in 1..Len(log) : log[i].phase = "Workers" /\ IsTransport(log[i])}

\* the call starts the three units of a worker
StartsWorker(e) ==
    /\ e.op = "ExecuteCommand"
    /\ e.cmd = <<"sudo", "systemctl", "start", "containerd", "kubelet", "kube-proxy">>

(* C27: workers are set up one at a time in configured order: during the
   Workers phase no Transport call targets worker i+1 before the start command
   of worker i has succeeded; after a failure on worker i no call of the phase
   has targeted a later worker; and the Network phase begins only after the
   start command has succeeded on every worker. *)
C27_WorkersSerial ==
    LET calls == WorkerCalls
        n == Len(config.Workers)
        ip == [w \in 1..n |-> config.Workers[w].IPAddress]
        started == [w \in 1..n |->
                        {i \in calls : log[i].host = ip[w] /\ StartsWorker(log[i]) /\ log[i].ok}]
    IN  /\ \A i \in calls :
            /\ \E w \in 1..n : log[i].host = ip[w]
            /\ \A w \in 2..n :
                    log[i].host = ip[w] => \E s \in started[w - 1] : s < i
            /\ ~log[i].ok =>
                    \A j \in calls, w, v \in 1..n :
                        (log[i].host = ip[w] /\ log[j].host = ip[v]) => v <= w
        /\ (\E i \in 1..Len(log) : log[i].phase = "Network") =>
                \A w \in 1..n : started[w] # {}

\* the second worker's start command failed, after the first worker was set up
C27_Witness ==
    /\ Len(config.Workers) = 2
    /\ result.setup = "error"
    /\ \E i \in WorkerCalls :
        /\ log[i].host = config.Workers[2].IPAddress
        /\ StartsWorker(log[i])
        /\ ~log[i].ok

----------------------------------------------------------------------------
Range(s) == {s[i] : i \in 1..Len(s)}

\* the step of the worker flow a Transport call of the Workers phase belongs
\* to; daemon-reload, enable and start of step 7 are told apart as 8, 9, 10.
\* `fetch` holds the commands that fetch and install the CNI plugins,
\* containerd and runc, and the Kubernetes binaries.
WorkerStep(e, fetch) ==
    IF e.op = "CopyFile" THEN 5
    ELSE IF e.op = "CopyContent"
         THEN IF e.remotePaths \subseteq
                    {"/etc/systemd/system/" \o u \o ".service" :
                        u \in {"containerd", "kubelet", "kube-proxy"}}
              THEN 7 ELSE 6
    ELSE IF e.cmd[2] = "systemctl"
         THEN IF e.cmd[3] = "daemon-reload" THEN 8
              ELSE IF e.cmd[3] = "enable" THEN 9
              ELSE IF e.cmd[3] = "start" THEN 10 ELSE 0
    ELSE IF e.cmd[2] \in {"apt-get", "mkdir"} THEN 1
    ELSE IF e.cmd \in fetch.cni THEN 2
    ELSE IF e.cmd \in fetch.containerd THEN 3
    ELSE IF e.cmd \in fetch.k8s THEN 4
    ELSE 0

Fetches ==
    [cni |-> Range(cniCommands(config)),
     containerd |-> Range(containerdCommands(config)),
     k8s |-> Range(k8sWorkerCommands(config))]

\* the files a worker must hold before its units are started
NormativeWorkerFiles(name) ==
    {"/var/lib/kubelet/ca.pem",
     "/var/lib/kubelet/" \o name \o ".pem",
     "/var/lib/kubelet/" \o name \o "-key.pem",
     "/var/lib/kubelet/" \o name \o ".kubeconfig",
     "/var/lib/kube-proxy/kube-proxy.kubeconfig",
     "/etc/containerd/config.toml",
     "/etc/cni/net.d/10-bridge.conf",
     "/etc/cni/net.d/99-loopback.conf",
     "/var/lib/kubelet/kubelet-config.yaml",
     "/var/lib/kube-proxy/kube-proxy-config.yaml",
     "/etc/systemd/system/containerd.service",
     "/etc/systemd/system/kubelet.service",
     "/etc/systemd/system/kube-proxy.service"}

(* C26: for each worker the steps run in the order packages and directories,
   CNI plugins, containerd and runc, Kubernetes binaries, certificates and
   kubeconfigs, configuration files, unit files, then daemon-reload, enable,
   start; and the start command is issued on a worker only after every
   normative worker file has been uploaded to that worker by a call that
   succeeded. *)
C26_WorkerFlow ==
    LET calls == WorkerCalls
        fetch == Fetches
        step == [i \in calls |-> WorkerStep(log[i], fetch)]
    IN  /\ \A i \in calls : step[i] \in 1..10
        /\ \A i \in calls :
            (i - 1) \in calls /\ log[i - 1].host = log[i].host => step[i - 1] <= step[i]
        /\ \A w \in 1..Len(config.Workers) :
            \A i \in calls :
                (log[i].host = config.Workers[w].IPAddress /\ step[i] = 10) =>
                    NormativeWorkerFiles(config.Workers[w].Name) \subseteq
                        UNION {log[j].wrote :
                                  j \in {k \in calls : k < i /\ step[k] \in 5..7 /\ log[k].ok
                                                       /\ log[k].host = log[i].host}}

\* the start command was issued on the second of two workers
C26_Witness ==
    /\ Len(config.Workers) = 2
    /\ \E i \in WorkerCalls :
        /\ log[i].host = config.Workers[2].IPAddress
        /\ StartsWorker(log[i])
        /\ log[i].ok

----------------------------------------------------------------------------
\* a call of step 5 of the controller flow: the Kubernetes directories are
\* created, the control-plane binaries fetched and installed
IsStep5(e) ==
    /\ e.phase = "Controller"
    /\ e.op = "ExecuteCommand"
    /\ e.cmd \in Range(k8sCommands(config))

\* a call of step 6: a file is copied into /var/lib/kubernetes/
IsStep6(e) ==
    /\ e.phase = "Controller"
    /\ e.op = "CopyFile"
    /\ e.src \in Range(additionalFiles)

\* positions at which etcd answered `active` to its health gate
EtcdGatePassed == {j \in 1..Len(log) : ActiveProbe("etcd", log[j])}

(* C25 as stated: the controller flow performs its seven steps in the listed
   order; in particular etcd is installed, started and has passed its health
   gate (step 4) before the Kubernetes directories are created and the
   control-plane binaries are fetched (step 5) and before the additional
   Kubernetes files are copied (step 6). *)
C25_EtcdGateBeforeKubernetes ==
    LET passed == EtcdGatePassed
    IN  \A i \in 1..Len(log) :
            (IsStep5(log[i]) \/ IsStep6(log[i])) => \E j \in passed : j < i

\* positions of the calls of steps 5 and 6
KubernetesSteps == {i \in 1..Len(log) : IsStep5(log[i]) \/ IsStep6(log[i])}

\* what the code does: whenever etcd is started, every call of steps 5 and 6
\* has already been made and has succeeded
C25_EtcdStartedLast ==
    \A i \in 1..Len(log) :
        StartOf("etcd", log[i]) =>
            /\ Cardinality(KubernetesSteps) = Len(k8sCommands(config)) + Len(additionalFiles)
            /\ \A k \in KubernetesSteps : k < i /\ log[k].ok

----------------------------------------------------------------------------
(* The health gate on its own: one call waitForService(ctx, host, unit,
   timeout), on any node, for any known unit, with the timeouts of
   setupControlPlane, a timeout that is no multiple of the pause, and none *)

GateTimeouts == {0, 7, 30, 60}

\* cm.waitForService(ctx, host, unit, timeout) has just been called
GateInit ==
    /\ config \in Configs
    /\ ctxDone = FALSE
    /\ session = NoSession
    /\ remote = NoRemote
    /\ answer = "none"
    /\ term = NoTerminal
    /\ configFile = NoFile
    /\ loaded = NotLoaded
    /\ workDirExists = TRUE
    /\ localFiles = <<>>
    /\ mode = "setup"
    /\ script \in {<<WaitStep("Controller", Fleet(config)[n].IPAddress, unit, timeout)>> :
                      n \in 1..Len(Fleet(config)),
                      unit \in Range(KnownUnits),
                      timeout \in GateTimeouts}
    /\ pc = 1
    /\ ranged = {}
    /\ elapsed = 0
    /\ probes = 0
    /\ log = <<>>
    /\ phasesDone = <<>>
    /\ failedCalls = {}
    /\ reissued = {}
    /\ nonActive = FALSE
    /\ result = [setup |-> "running", destroy |-> "none"]
    /\ errv = [setup |-> NoError, destroy |-> NoError]

\* the caller cancels the context it handed to the call in progress
Cancel ==
    /\ Running \/ session.stage \notin {"none", "returned"}
    /\ ~ctxDone
    /\ ctxDone' = TRUE
    /\ UNCHANGED <<config, remote, term, configFile, loaded, session, answer, workDirExists, localFiles, mode,
                   script, pc, ranged, elapsed, probes, log, phasesDone, failedCalls, reissued,
                   nonActive, result, errv>>

\* the steps of the goroutine that runs the gate
GateStep ==
    \/ waitForService
    \/ waitForServiceDeadline
    \/ ReturnNil

GateNext ==
    \/ GateStep
    \/ Cancel

\* the goroutine that runs the gate keeps running, and every probe returns
GateSpec == GateInit /\ [][GateNext]_vars /\ WF_vars(GateStep)

\* the gate that was called
Gate == script[1]

GateReturned == result.setup \in {"nil", "error"}

\* what holds of the gate at any time
GateSafe ==
    LET probe == [host |-> Gate.host, cmd |-> <<"sudo", "systemctl", "is-active", Gate.unit>>]
    IN  /\ failedCalls \subseteq {probe}
        /\ \A i \in 1..Len(log) :
            \/ /\ log[i].op = "ExecuteCommand"
               /\ log[i].host = probe.host
               /\ log[i].cmd = probe.cmd
               /\ i = Len(log)
               /\ result.setup # "error"
            \/ /\ log[i].op = "waitForService"
               /\ result.setup = "error"
        /\ elapsed >= probes * PollInterval
        /\ answer = "active" <=> pc = 2
        /\ result.setup = "nil" => answer = "active" /\ Len(log) = 1
        /\ result.setup = "error" =>
                /\ errv.setup.kind = "ErrUnhealthy"
                /\ errv.setup.what.unit = Gate.unit
                /\ elapsed >= Gate.timeout
                /\ answer # "active"

\* what holds of every step: a probe is issued only before the deadline and
\* while the gate runs, a probe not answered `active` is followed by a pause
\* of 5 s, and the probe answered `active` ends the gate
GateStepSafe ==
    /\ answer' # answer \/ probes' # probes \/ failedCalls' # failedCalls \/ log' # log =>
            /\ result.setup = "running"
            /\ elapsed < Gate.timeout \/ (result'.setup = "error" /\ probes' = probes)
    /\ probes' > probes =>
            /\ probes' = probes + 1
            /\ elapsed' >= elapsed + PollInterval
            /\ answer' = "other"
    /\ probes' < probes => answer' = "active" /\ pc' = 2
    /\ GateReturned => result' = result /\ probes' = probes /\ elapsed' = elapsed

(* C23: waitForService(host, unit, timeout) issues `sudo systemctl is-active
   <unit>` on host repeatedly with a 5 s pause between probes; it returns nil
   at the first probe whose trimmed stdout equals `active`, and if no probe
   does so before the deadline it stops probing and returns the unhealthy
   error for that unit; it always terminates. *)
C23_Gate == []GateSafe /\ [][GateStepSafe]_vars /\ <>GateReturned

\* the gate returned nil at a probe answered `active`, after probes that
\* failed or were answered otherwise
C23_Witness ==
    /\ result.setup = "nil"
    /\ Len(script) = 1
    /\ Gate.timeout = 30
    /\ nonActive
    /\ failedCalls # {}
    /\ answer = "active"

----------------------------------------------------------------------------
(* C24 as stated: the health gate respects context cancellation: once the
   context given to waitForService is cancelled, the gate issues no further
   probe (none is counted, none ends the gate with nil) and completes no
   further 5 s sleep, even though the deadline has not elapsed. *)
C24_GateStopsOnCancel ==
    [][(ctxDone /\ AtStep("waitForService") /\ elapsed < Gate.timeout) =>
            /\ probes' = probes
            /\ elapsed' <= elapsed
            /\ pc' = pc]_vars

\* what the code does: cancelled or not, the gate goes on probing and
\* sleeping until a probe is answered `active` or the deadline has passed
C24_CancelUnseen ==
    (ctxDone /\ GateReturned) => (answer = "active" \/ elapsed >= Gate.timeout)

----------------------------------------------------------------------------
(* One call of RealSSHClient.ExecuteCommand(ctx, host, command), CopyFile(ctx,
   host, localPath, remotePath) or CopyContent(ctx, host, content, remotePath),
   step by step: the connection, the sessions, the remote commands in flight,
   the return *)

\* commands of the orchestrator, one of which does not end on its own
TransportCommands ==
    {SSHTestCommand, IsActiveCommand("etcd"), <<"sudo", "apt-get", "update">>,
     <<"kubectl", "get", "nodes", "--watch">>}

TransportInit ==
    /\ config \in Configs
    /\ ctxDone = FALSE
    /\ session = NoSession
    /\ remote = NoRemote
    /\ answer = "none"
    /\ term = NoTerminal
    /\ configFile = NoFile
    /\ loaded = NotLoaded
    /\ workDirExists = TRUE
    /\ localFiles = WriteAll(<<>>, CAFiles(config.Certificates))
    /\ mode = "idle"
    /\ script = <<>>
    /\ pc = 1
    /\ ranged = {}
    /\ elapsed = 0
    /\ probes = 0
    /\ log = <<>>
    /\ phasesDone = <<>>
    /\ failedCalls = {}
    /\ reissued = {}
    /\ nonActive = FALSE
    /\ result = [setup |-> "none", destroy |-> "none"]
    /\ errv = [setup |-> NoError, destroy |-> NoError]

\* nothing but the call in flight changes
OnlySession ==
    UNCHANGED <<config, remote, term, configFile, loaded, ctxDone, answer, workDirExists, localFiles, mode,
                script, pc, ranged, elapsed, probes, log, phasesDone, failedCalls, reissued,
                nonActive, result, errv>>

\* return "", fmt.Errorf(...)
ReturnError(msg) ==
    session' = [session EXCEPT !.stage = "returned", !.out = "", !.err = msg]

\* a call of the Transport that has just been made: no session opened, no
\* remote command run
Called(call, host, command, localPath, remotePath) ==
    [stage |-> "called", call |-> call, host |-> host, cmd |-> command,
     localPath |-> localPath, remotePath |-> remotePath, sessions |-> 0, ran |-> <<>>,
     remote |-> "none", status |-> 0, out |-> "", err |-> ""]

\* a caller invokes c.ExecuteCommand(ctx, host, command)
CallExecuteCommand ==
    /\ session.stage = "none"
    /\ \E n \in 1..Len(Fleet(config)), command \in TransportCommands :
        session' = Called("ExecuteCommand", Fleet(config)[n].IPAddress, command, "", "")
    /\ OnlySession

\* local files a caller names, one of which is not there, and where they go
CopySources == {"ca.pem", "ca-key.pem", "kubernetes.pem"}

CopyTargets == {"/etc/etcd/", "/var/lib/kubernetes/"}

\* a caller invokes c.CopyFile(ctx, host, localPath, remotePath)
CallCopyFile ==
    /\ session.stage = "none"
    /\ \E n \in 1..Len(Fleet(config)), file \in CopySources, dir \in CopyTargets :
        session' = Called("CopyFile", Fleet(config)[n].IPAddress, <<>>, file, dir \o file)
    /\ OnlySession

\* a caller invokes c.CopyContent(ctx, host, content, remotePath)
CallCopyContent ==
    /\ session.stage = "none"
    /\ \E n \in 1..Len(Fleet(config)), path \in {"/tmp/coredns.yaml", "/etc/containerd/config.toml"} :
        session' = Called("CopyContent", Fleet(config)[n].IPAddress, <<>>, "", path)
    /\ OnlySession

\* client, err := c.createSSHClient(host): ssh.Dial with a 30 s timeout
createSSHClient ==
    /\ session.stage = "called"
    /\ \E ok \in BOOLEAN :
        IF ok THEN session' = [session EXCEPT !.stage = "connected"]
        ELSE ReturnError("failed to create SSH client")
    /\ OnlySession

\* session, err := client.NewSession(); in CopyFile and CopyContent also
\* permSession, err := client.NewSession(), once the first session has written
NewSession ==
    /\ session.stage \in {"connected", "written"}
    /\ \E ok \in BOOLEAN :
        IF ok THEN session' = [session EXCEPT !.stage = IF @ = "connected" THEN "session"
                                                        ELSE "permSession",
                                              !.sessions = @ + 1]
        ELSE ReturnError(IF session.stage = "connected" THEN "failed to create SSH session"
                         ELSE "failed to create permission session")
    /\ OnlySession

\* fileContent, err := os.ReadFile(localPath), in CopyFile
ReadFile ==
    /\ session.stage = "session"
    /\ session.call = "CopyFile"
    /\ IF session.localPath \in DOMAIN localFiles
       THEN session' = [session EXCEPT !.stage = "read"]
       ELSE ReturnError("failed to read local file")
    /\ OnlySession

\* pipe, err := session.StdinPipe(), in CopyFile and CopyContent
StdinPipe ==
    /\ \/ session.stage = "read"
       \/ session.stage = "session" /\ session.call = "CopyContent"
    /\ \E ok \in BOOLEAN :
        IF ok THEN session' = [session EXCEPT !.stage = "piped"]
        ELSE ReturnError("failed to create stdin pipe")
    /\ OnlySession

\* the command the next session.Run of the call sends
RunCommand(s) ==
    IF s.call = "ExecuteCommand" THEN s.cmd
    ELSE IF s.stage = "piped" THEN <<"sudo", "tee", s.remotePath, ">", "/dev/null">>
    ELSE <<"sudo", "chmod", "644", s.remotePath>>

\* session.Run(command) sends the request: the command starts on the remote
\* host, and Run waits for it to exit (status -1: it has not exited)
sessionRun ==
    /\ \/ session.stage = "session" /\ session.call = "ExecuteCommand"
       \/ session.stage \in {"piped", "permSession"}
    /\ session' = [session EXCEPT !.stage = "running", !.remote = "running",
                                  !.ran = Append(@, [cmd |-> RunCommand(session),
                                                     session |-> session.sessions,
                                                     status |-> -1])]
    /\ OnlySession

\* the remote command ends on its own, with an exit status
RemoteExit ==
    /\ session.stage = "running"
    /\ session.remote = "running"
    /\ \E status \in {0, 1} :
        session' = [session EXCEPT !.remote = "exited", !.status = status,
                                  !.ran[Len(session.ran)].status = status]
    /\ OnlySession

\* a copy that sets the mode whether or not the write succeeded
sessionRunReturnsKeepsGoing ==
    /\ session.stage = "running"
    /\ session.remote = "exited"
    /\ IF session.call # "ExecuteCommand" /\ session.sessions = 1
       THEN session' = [session EXCEPT !.stage = "written"]
       ELSE IF session.status = 0
       THEN session' = [session EXCEPT !.stage = "returned",
                                       !.out = IF session.call = "ExecuteCommand"
                                               THEN "stdout" ELSE ""]
       ELSE ReturnError("failed to set permissions")
    /\ OnlySession

\* session.Run returns once the remote command has exited.  ExecuteCommand
\* returns stdout, or an error if the exit status is not zero; CopyFile and
\* CopyContent go on to the permission session after the write, return nil
\* after the mode change, and return an error if either exit status is not zero
sessionRunReturns ==
    /\ session.stage = "running"
    /\ session.remote = "exited"
    /\ IF session.status # 0
       THEN ReturnError(IF session.call = "ExecuteCommand" THEN "failed to execute command"
                        ELSE IF session.sessions = 1 THEN "failed to copy"
                        ELSE "failed to set permissions")
       ELSE IF session.call # "ExecuteCommand" /\ session.sessions = 1
       THEN session' = [session EXCEPT !.stage = "written"]
       ELSE session' = [session EXCEPT !.stage = "returned",
                                       !.out = IF session.call = "ExecuteCommand"
                                               THEN "stdout" ELSE ""]
    /\ OnlySession

\* the steps of the goroutine that runs the call
ClientStep ==
    \/ createSSHClient
    \/ NewSession
    \/ ReadFile
    \/ StdinPipe
    \/ sessionRun
    \/ sessionRunReturns

TransportNext ==
    \/ CallExecuteCommand
    \/ CallCopyFile
    \/ CallCopyContent
    \/ ClientStep
    \/ RemoteExit
    \/ Cancel

\* the goroutine that runs the call keeps running; nothing makes a remote
\* command end
TransportSpec == TransportInit /\ [][TransportNext]_vars /\ WF_vars(ClientStep)

InFlight == session.stage = "running" /\ session.remote = "running"

(* C21 as stated: when the context passed to the Transport's ExecuteCommand
   is cancelled while the remote command is in flight, the remote command is
   killed and the call returns with an error instead of waiting for the
   command to finish on its own. *)
C21_CancelKills ==
    (ctxDone /\ InFlight) ~>
        (session.stage = "returned" /\ session.err # "" /\ session.remote = "killed")

\* what the code does: a call that has started its command returns only
\* after the command has ended on its own, cancelled or not, and no remote
\* command is ever killed
C21_WaitsForExit ==
    /\ session.stage # "none" => session.remote \in {"none", "running", "exited"}
    /\ (session.stage = "returned" /\ session.remote # "none") => session.remote = "exited"

----------------------------------------------------------------------------
(* The terminal view of the TUI: Application.executeCommand, the command it
   hands to the runtime, and Update on the message that comes back.  Strings
   are sequences of pieces: words, and the whitespace between them. *)

\* how many commands are entered
MaxCommands == 2

\* what the user types: kubectl verbs that modify and that do not, a verb
\* that is not the first word, padding, built-ins, and a blank line
TerminalCommands ==
    {<<"apply", " ", "-f", " ", "svc.yaml">>,
     <<" ", "delete", " ", "pod", " ", "web", " ">>,
     <<"get", " ", "pods">>,
     <<"logs", " ", "apply">>,
     <<"kubectl", " ", "scale", " ", "deploy/web">>,
     <<"help">>,
     <<"clear">>,
     <<" ">>}

\* strings.Fields
Fields(s) == SelectSeq(s, LAMBDA piece : piece \notin Whitespace)

\* the keys of the map modifyingCommands
modifyingCommands ==
    {"create", "apply", "patch", "replace", "delete", "scale", "annotate", "label", "expose",
     "rollout", "set", "edit", "cp", "drain", "cordon", "uncordon", "taint"}

\* a check of every word of the command
IsModifyingCommandAnyWord(command) ==
    \E i \in 1..Len(Fields(command)) : Fields(command)[i] \in modifyingCommands

\* kubectl.IsModifyingCommand
IsModifyingCommand(command) ==
    LET parts == Fields(command)
    IN  Len(parts) # 0 /\ parts[1] \in modifyingCommands

NoMsg == [type |-> "none"]

commandExecutedMsg(output) == [type |-> "commandExecutedMsg", output |-> output]

errorMsg(err) == [type |-> "errorMsg", err |-> err]

\* styles.<Style>.Render(text)
Render(style, text) == [style |-> style, text |-> text]

\* the terminal of a selected cluster, with a Git manager or without
TerminalInit ==
    /\ config \in Configs
    /\ ctxDone = FALSE
    /\ session = NoSession
    /\ remote = NoRemote
    /\ answer = "none"
    /\ term \in {[state |-> "terminalView", gitManager |-> g, currentCommand |-> <<>>,
                  commandHistory |-> <<>>, output |-> <<>>, at |-> "idle", command |-> <<>>,
                  cmdOutput |-> <<>>, syncErr |-> "", msg |-> NoMsg, ops |-> <<>>] :
                    g \in BOOLEAN}
    /\ configFile = NoFile
    /\ loaded = NotLoaded
    /\ workDirExists = TRUE
    /\ localFiles = <<>>
    /\ mode = "idle"
    /\ script = <<>>
    /\ pc = 1
    /\ ranged = {}
    /\ elapsed = 0
    /\ probes = 0
    /\ log = <<>>
    /\ phasesDone = <<>>
    /\ failedCalls = {}
    /\ reissued = {}
    /\ nonActive = FALSE
    /\ result = [setup |-> "none", destroy |-> "none"]
    /\ errv = [setup |-> NoError, destroy |-> NoError]

\* nothing but the terminal changes
OnlyTerm ==
    UNCHANGED <<config, remote, configFile, loaded, ctxDone, session, answer, workDirExists, localFiles,
                mode, script, pc, ranged, elapsed, probes, log, phasesDone, failedCalls,
                reissued, nonActive, result, errv>>

\* updateTerminal on key runes: a.currentCommand += string(msg.Runes)
TypeCommand ==
    /\ term.state = "terminalView"
    /\ term.currentCommand = <<>>
    /\ Len(term.commandHistory) < MaxCommands
    /\ \E typed \in TerminalCommands : term' = [term EXCEPT !.currentCommand = typed]
    /\ OnlyTerm

\* updateTerminal on enter, then executeCommand up to the tea.Cmd it returns
executeCommand ==
    /\ term.state = "terminalView"
    /\ term.currentCommand # <<>>
    /\ LET command == TrimSpace(term.currentCommand)
       IN  term' = [term EXCEPT !.commandHistory = Append(@, command),
                                !.output = @ \o <<Render("PromptStyle", "[cluster]$"), " ">>
                                             \o command \o <<"\n">>,
                                !.currentCommand = <<>>,
                                !.state = "loadingView",
                                !.at = "handleBuiltinCommand",
                                !.command = command,
                                !.cmdOutput = <<>>,
                                !.syncErr = "",
                                !.msg = NoMsg,
                                !.ops = <<>>]
    /\ OnlyTerm

\* the tea.Cmd returns the message
Return(msg) == term' = [term EXCEPT !.msg = msg, !.at = "message"]

\* handleBuiltinCommand(command): the text of a built-in, "" otherwise
BuiltinOutput(command) ==
    LET parts == Fields(command)
    IN  IF Len(parts) = 0 THEN <<>>
        ELSE IF parts[1] = "help" THEN <<"help text">>
        ELSE IF parts[1] = "clear" THEN <<>>
        ELSE IF parts[1] = "cluster-info" THEN <<"cluster info">>
        ELSE IF parts[1] = "deps" THEN <<"dependency info">>
        ELSE <<>>

\* if output := a.handleBuiltinCommand(command); output != "" { return ... }
handleBuiltinCommand ==
    /\ term.at = "handleBuiltinCommand"
    /\ IF BuiltinOutput(term.command) # <<>>
       THEN Return(commandExecutedMsg(BuiltinOutput(term.command)))
       ELSE term' = [term EXCEPT !.at = "ExecuteCommand"]
    /\ OnlyTerm

\* output, err := a.kubectlExecutor.ExecuteCommand(command), and the check
\* that decides on the Git sync
ExecutorExecuteCommand ==
    /\ term.at = "ExecuteCommand"
    /\ LET parts == Fields(term.command)
       IN  IF Len(parts) = 0
           THEN Return(errorMsg("empty command"))
           ELSE \E ok \in BOOLEAN :
                   LET ran == Append(term.ops, [op |-> "kubectl", args |-> parts, ok |-> ok])
                   IN  IF ~ok
                       THEN term' = [term EXCEPT !.ops = ran, !.at = "message",
                                                 !.msg = errorMsg("kubectl command failed")]
                       ELSE IF IsModifyingCommand(term.command) /\ term.gitManager
                       THEN term' = [term EXCEPT !.ops = ran, !.at = "pullLatest",
                                                 !.cmdOutput = <<"kubectl output">>]
                       ELSE term' = [term EXCEPT !.ops = ran, !.at = "message",
                                                 !.cmdOutput = <<"kubectl output">>,
                                                 !.msg = commandExecutedMsg(<<"kubectl output">>)]
    /\ OnlyTerm

\* SyncChanges returned an error: the warning is added to the output
SyncFailed(ran, err) ==
    term' = [term EXCEPT
                !.ops = ran,
                !.syncErr = err,
                !.at = "message",
                !.msg = commandExecutedMsg(
                            term.cmdOutput
                            \o <<"\n", Render("ErrorStyle", <<"Git sync warning: ", err>>)>>)]

\* SyncChanges returned nil
Synced(ran) ==
    term' = [term EXCEPT
                !.ops = ran,
                !.at = "message",
                !.msg = commandExecutedMsg(
                            term.cmdOutput
                            \o <<"\n", Render("SuccessStyle", "Changes synced to Git repository")>>)]

\* gm.pullLatest(): git pull origin main, and origin master if that fails
pullLatest ==
    /\ term.at = "pullLatest"
    /\ \E pulled \in {"main", "master", "none"} :
        LET ran == Append(term.ops, [op |-> "pull", ok |-> pulled # "none",
                                     branches |-> IF pulled = "main" THEN <<"main">>
                                                  ELSE <<"main", "master">>])
        IN  IF pulled = "none"
            THEN SyncFailed(ran, "failed to pull latest changes")
            ELSE term' = [term EXCEPT !.ops = ran, !.at = "ExportClusterResources"]
    /\ OnlyTerm

\* gm.ExportClusterResources(): an error if the directory cannot be made or
\* no resource type was exported
ExportClusterResources ==
    /\ term.at = "ExportClusterResources"
    /\ \E ok \in BOOLEAN :
        LET ran == Append(term.ops, [op |-> "export", ok |-> ok])
        IN  IF ok THEN term' = [term EXCEPT !.ops = ran, !.at = "CommitAndPush"]
            ELSE SyncFailed(ran, "failed to export cluster resources")
    /\ OnlyTerm

\* what CommitAndPush runs up to the step that ends it
CommitAndPushOps(ending) ==
    IF ending = "chdir failed" THEN <<>>
    ELSE IF ending = "add failed" THEN <<[op |-> "add", ok |-> FALSE]>>
    ELSE <<[op |-> "add", ok |-> TRUE]>> \o
         (IF ending = "clean" THEN <<[op |-> "diff", ok |-> TRUE, staged |-> FALSE]>>
          ELSE <<[op |-> "diff", ok |-> TRUE, staged |-> TRUE]>> \o
               (IF ending = "commit failed" THEN <<[op |-> "commit", ok |-> FALSE]>>
                ELSE <<[op |-> "commit", ok |-> TRUE],
                       [op |-> "push", ok |-> ending = "pushed"]>>))

\* gm.CommitAndPush(""): git add ., git diff --cached --quiet, and if
\* something is staged git commit and git push
CommitAndPush ==
    /\ term.at = "CommitAndPush"
    /\ \E ending \in {"chdir failed", "add failed", "clean", "commit failed", "push failed",
                      "pushed"} :
        LET ran == term.ops \o CommitAndPushOps(ending)
        IN  IF ending \in {"clean", "pushed"} THEN Synced(ran)
            ELSE SyncFailed(ran, "failed to commit and push changes")
    /\ OnlyTerm

\* Update on commandExecutedMsg and on errorMsg
Update ==
    /\ term.at = "message"
    /\ term' = [term EXCEPT
                    !.output = IF term.msg.type = "commandExecutedMsg" THEN term.msg.output
                               ELSE <<Render("ErrorStyle", <<"Error: ", term.msg.err>>)>>,
                    !.state = "terminalView",
                    !.at = "idle"]
    /\ OnlyTerm

TerminalNext ==
    \/ TypeCommand
    \/ executeCommand
    \/ handleBuiltinCommand
    \/ ExecutorExecuteCommand
    \/ pullLatest
    \/ ExportClusterResources
    \/ CommitAndPush
    \/ Update

\* the runtime runs the command it was handed and delivers its message
TerminalSpec ==
    TerminalInit /\ [][TerminalNext]_vars
    /\ WF_vars(handleBuiltinCommand \/ ExecutorExecuteCommand \/ pullLatest
               \/ ExportClusterResources \/ CommitAndPush \/ Update)

----------------------------------------------------------------------------
\* the command handed to the runtime has run to its message
CommandDone == term.commandHistory # <<>> /\ term.at \in {"message", "idle"}

\* the steps of the Git sync that were run for the last command
SyncOps == SelectSeq(term.ops, LAMBDA o : o.op # "kubectl")

\* kubectl ran the last command and it succeeded
KubectlSucceeded == term.ops # <<>> /\ term.ops[1].op = "kubectl" /\ term.ops[1].ok

\* the first word of the last command is a resource-modifying verb
FirstWordModifies ==
    LET words == Fields(term.commandHistory[Len(term.commandHistory)])
    IN  words # <<>> /\ words[1] \in modifyingCommands

\* a sync is run exactly when there is a Git manager, the command succeeded
\* and its first word is a resource-modifying verb
SyncedWhenDue ==
    /\ SyncOps # <<>> => (term.gitManager /\ KubectlSucceeded /\ FirstWordModifies)
    /\ (CommandDone /\ term.gitManager /\ KubectlSucceeded /\ FirstWordModifies) =>
            SyncOps # <<>>

\* a failure of the sync is a warning added to the output of the command,
\* in a commandExecutedMsg; its success is noted in the same way
WarningNotError ==
    (CommandDone /\ SyncOps # <<>>) =>
        /\ term.msg.type = "commandExecutedMsg"
        /\ SubSeq(term.msg.output, 1, 2) = <<"kubectl output", "\n">>
        /\ Len(term.msg.output) = 3
        /\ term.msg.output[3].style = IF term.syncErr # "" THEN "ErrorStyle" ELSE "SuccessStyle"
        /\ term.state = "terminalView" => term.output = term.msg.output

\* the steps of the sync in their order
SyncOrder == <<"pull", "export", "add", "diff", "commit", "push">>

\* the steps run are the first steps of SyncOrder, each run after the one
\* before it succeeded
SyncInOrder ==
    LET ops == SyncOps
    IN  /\ Len(ops) <= Len(SyncOrder)
        /\ \A k \in 1..Len(ops) :
            /\ ops[k].op = SyncOrder[k]
            /\ k < Len(ops) => ops[k].ok

\* the sync returned nil
SyncReturnedNil == CommandDone /\ SyncOps # <<>> /\ term.syncErr = ""

(* C22 as stated: in the terminal, for a cluster that has a Git manager, a
   Git sync is performed after a kubectl command exactly when the command
   succeeded and its first word is a resource-modifying verb; the sync runs
   pull, export, commit, push in that order; and a sync failure is appended
   to the command output as a warning without turning the command result into
   an error. *)
C22_SyncRunsAllFour ==
    /\ SyncedWhenDue
    /\ SyncInOrder
    /\ SyncReturnedNil =>
            \A step \in {"pull", "export", "commit", "push"} :
                \E k \in 1..Len(SyncOps) : SyncOps[k].op = step /\ SyncOps[k].ok
    /\ WarningNotError

(* C22, amended: as stated, except that the sync runs pull, export and
   `git add .` in that order and then commit and push only if something is
   staged: a sync that finds nothing staged returns nil without a commit and
   without a push, and is reported as a success. *)
C22_SyncCommitsWhatIsStaged ==
    /\ SyncedWhenDue
    /\ SyncInOrder
    /\ SyncReturnedNil =>
            LET ops == SyncOps
            IN  /\ Len(ops) >= 4
                /\ \A k \in 1..Len(ops) : ops[k].ok
                /\ IF ops[4].staged THEN Len(ops) = 6 ELSE Len(ops) = 4
    /\ \A k \in 1..Len(SyncOps) :
            SyncOps[k].op \in {"commit", "push"} => SyncOps[4].staged
    /\ WarningNotError

\* on a cluster with a Git manager a padded `delete`, the second command
\* entered, succeeded and its sync found nothing staged: no commit, no push,
\* and the terminal shows the success note
C22_Witness ==
    /\ term.gitManager
    /\ term.state = "terminalView"
    /\ term.at = "idle"
    /\ Len(term.commandHistory) = 2
    /\ term.commandHistory[2] = <<"delete", " ", "pod", " ", "web">>
    /\ SyncReturnedNil
    /\ Len(SyncOps) = 4
    /\ term.output[3] = Render("SuccessStyle", "Changes synced to Git repository")


-----------------------------------------------------------------------------
\* the step indices of the progress events delivered so far, in order
ProgressSteps ==
    LET at == Positions(LAMBDA e : e.op = "ReportProgress")
        nth[k \in 0..Cardinality(at)] ==
            IF k = 0 THEN <<>>
            ELSE LET i == CHOOSE i \in at : Cardinality({j \in at : j < i}) = k - 1
                 IN  Append(nth[k - 1], log[i].step)
    IN  nth[Cardinality(at)]

SevenSteps == <<1, 2, 3, 4, 5, 6, 6>>

(* C34: every progress event is logged before any other call of its phase, carries
   totalSteps = 6, and the step indices delivered are a prefix of 1, 2, 3, 4, 5, 6, 6,
   so the index never decreases and never exceeds totalSteps *)
C34_ProgressEvents ==
    LET at    == Positions(LAMBDA e : e.op = "ReportProgress")
        steps == ProgressSteps
    IN  /\ \A i \in at :
              /\ log[i].total = 6
              /\ log[i].step <= log[i].total
              /\ \A j \in 1..Len(log) : log[j].phase = log[i].phase /\ j # i => i < j
        /\ Len(steps) <= 7
        /\ steps = SubSeq(SevenSteps, 1, Len(steps))
        /\ \A k \in 1..(Len(steps) - 1) : steps[k] <= steps[k + 1]

\* the seven events have been delivered and the Validate phase has acted
C34_Witness ==
    /\ ProgressSteps = SevenSteps
    /\ \E j \in 1..Len(log) : log[j].phase = "Validate" /\ log[j].op = "ExecuteCommand"


-----------------------------------------------------------------------------
\* the Transport calls the Validate phase has made so far, in order
ValidateCalls ==
    SelectSeq(log, LAMBDA e : e.phase = "Validate" /\ e.op # "ReportProgress")

\* the four kubectl commands and the upload of validateCluster, in the order of the source
ValidateOrder(host) ==
    <<[op |-> "ExecuteCommand", host |-> host,
       what |-> <<"kubectl", "get", "nodes", "--kubeconfig", "/var/lib/kubernetes/admin.kubeconfig">>],
      [op |-> "ExecuteCommand", host |-> host,
       what |-> <<"kubectl", "get", "pods", "-n", "kube-system",
                  "--kubeconfig", "/var/lib/kubernetes/admin.kubeconfig">>],
      [op |-> "CopyContent", host |-> host, what |-> {"/tmp/test-app.yaml"}],
      [op |-> "ExecuteCommand", host |-> host,
       what |-> <<"kubectl", "apply", "-f", "/tmp/test-app.yaml",
                  "--kubeconfig", "/var/lib/kubernetes/admin.kubeconfig">>],
      [op |-> "ExecuteCommand", host |-> host,
       what |-> <<"kubectl", "get", "deployment", "test-deployment",
                  "--kubeconfig", "/var/lib/kubernetes/admin.kubeconfig">>]>>

\* what a logged call asked of which host
Asking(e) ==
    [op |-> e.op, host |-> e.host,
     what |-> IF e.op = "ExecuteCommand" THEN e.cmd ELSE e.remotePaths]

(* C33: the Validate phase makes, on the controller and in this order, kubectl get
   nodes, kubectl get pods -n kube-system, the upload and the apply of the test
   manifest and kubectl get deployment test-deployment; it stops at the first call
   that fails, fails exactly when one of them fails, and returns nil exactly when
   all five succeeded, whatever they printed *)
C33_Validate ==
    LET calls  == ValidateCalls
        order  == ValidateOrder(config.Controller.IPAddress)
        failed == \E i \in 1..Len(calls) : ~calls[i].ok
    IN  /\ Len(calls) <= Len(order)
        /\ \A i \in 1..Len(calls) : Asking(calls[i]) = order[i]
        /\ \A i \in 1..(Len(calls) - 1) : calls[i].ok
        /\ failed <=> /\ result.setup = "error"
                       /\ "phase" \in DOMAIN errv.setup
                       /\ errv.setup.phase = "Validate"
        /\ "Validate" \in Range(phasesDone) => Len(calls) = Len(order) /\ ~failed
        /\ Len(calls) = Len(order) /\ ~failed /\ pc > Len(script)
              => "Validate" \in Range(phasesDone)
        /\ result.setup = "nil" => "Validate" \in Range(phasesDone)

\* the Validate phase returned nil although a kubectl command printed NotReady
C33_Witness ==
    /\ "Validate" \in Range(phasesDone)
    /\ result.setup = "nil"
    /\ \E i \in 1..Len(ValidateCalls) :
          ValidateCalls[i].op = "ExecuteCommand" /\ ValidateCalls[i].stdout = "NotReady"


-----------------------------------------------------------------------------
\* the remote files a kubectl command reads: its kubeconfig and its manifest
KubectlReads(cmd) ==
    IF cmd = <<>> \/ Head(cmd) # "kubectl" THEN {}
    ELSE {cmd[k + 1] : k \in {k \in 1..(Len(cmd) - 1) : cmd[k] \in {"--kubeconfig", "-f"}}}

\* positions of the kubectl commands issued so far
KubectlCalls ==
    {j \in 1..Len(log) : /\ log[j].op = "ExecuteCommand"
                         /\ log[j].cmd # <<>>
                         /\ Head(log[j].cmd) = "kubectl"}

\* the paths written on the host by those of the uploads `ups` that precede position j
UploadedBefore(ups, host, j) ==
    UNION {log[i].wrote : i \in {i \in ups : i < j /\ log[i].host = host}}

(* C35 as stated: every file a kubectl command of SetupCluster reads on a host, its
   manifest and its /var/lib/kubernetes/admin.kubeconfig, was uploaded to that host
   earlier in the run *)
C35_ReadsAreUploaded ==
    LET calls == KubectlCalls
    IN  calls # {} =>
            LET ups == Uploads
            IN  \A j \in calls :
                    KubectlReads(log[j].cmd) \subseteq UploadedBefore(ups, log[j].host, j)

\* the files kubectl commands were told to read although no upload had written them
C35_Missing ==
    LET calls == KubectlCalls
        ups   == Uploads
    IN  UNION {KubectlReads(log[j].cmd) \ UploadedBefore(ups, log[j].host, j) : j \in calls}

\* kubectl never reads anything that is missing but the admin kubeconfig, and every
\* kubectl command reads that
C35_OnlyAdminKubeconfigMissing ==
    KubectlCalls # {} => C35_Missing = {"/var/lib/kubernetes/admin.kubeconfig"}


-----------------------------------------------------------------------------
\* positions of the uploads that carried a kubeconfig of the Config phase to a node
KubeconfigUploads(ups, rendered) ==
    {i \in ups : log[i].op = "CopyFile" /\ \E k \in rendered : log[k].name = log[i].src}

\* the three files a rendered kubeconfig points at
Credentials(content) == {content.ca, content.cert, content.key}

(* C36 as stated: once the phase that uploaded a kubeconfig to a node has returned,
   the CA certificate, client certificate and client key the kubeconfig names are
   files that the uploads have written on that node *)
C36_KubeconfigPathsExist ==
    LET ups == Uploads
    IN  ups # {} =>
            LET rendered == Kubeconfigs
            IN  \A i \in KubeconfigUploads(ups, rendered) :
                    log[i].phase \in Range(phasesDone) =>
                        \A k \in rendered :
                            log[k].name = log[i].src =>
                                Credentials(log[k].content)
                                    \subseteq UploadedBefore(ups, log[i].host, Len(log) + 1)

\* no uploaded kubeconfig names any file that the uploads wrote on its node
C36_NoCredentialOnNode ==
    LET ups      == Uploads
        rendered == Kubeconfigs
    IN  \A i \in KubeconfigUploads(ups, rendered), k \in rendered :
            log[k].name = log[i].src =>
                Credentials(log[k].content) \cap UploadedBefore(ups, log[i].host, Len(log) + 1) = {}


-----------------------------------------------------------------------------
\* the directories a bare host has
BareDirs == {"/tmp", "/etc/systemd/system"}

\* the directories a command `sudo mkdir -p d1 d2 ...` creates
MkdirDirs(cmd) ==
    IF Len(cmd) > 3 /\ cmd[2] = "mkdir" /\ cmd[3] = "-p"
    THEN {cmd[k] : k \in 4..Len(cmd)}
    ELSE {}

\* the directories created on the host by the commands that succeeded before position j
CreatedBefore(host, j) ==
    UNION {MkdirDirs(log[i].cmd) :
             i \in {i \in 1..(j - 1) : /\ log[i].op = "ExecuteCommand"
                                       /\ log[i].host = host
                                       /\ log[i].ok}}

\* the remote paths an upload was asked to write
Targets(e) == IF e.op = "CopyFile" THEN {e.remotePath} ELSE e.remotePaths

\* the base names of the files SetupCluster uploads
UploadBaseNames ==
    {log[i].src : i \in {i \in 1..Len(log) : log[i].op = "CopyFile"}}
    \cup {"config.toml", "10-bridge.conf", "99-loopback.conf", "kubelet-config.yaml",
          "kube-proxy-config.yaml", "coredns.yaml", "test-app.yaml"}
    \cup {KnownUnits[k] \o ".service" : k \in 1..Len(KnownUnits)}

\* filepath.Dir(path) is dir
InDir(path, dir, names) == \E f \in names : path = dir \o "/" \o f

\* positions of the upload attempts of SetupCluster
UploadAttempts ==
    {j \in 1..Len(log) : log[j].op \in {"CopyFile", "CopyContent"} /\ log[j].phase # "Destroy"}

(* C37 as stated: every upload of SetupCluster targets a directory that a bare host
   has (/tmp, /etc/systemd/system) or that an earlier command of the run created
   on that host *)
C37_UploadDirsExist ==
    LET at == UploadAttempts
    IN  at # {} =>
            LET names == UploadBaseNames
            IN  \A j \in at : \A p \in Targets(log[j]) :
                    \E d \in BareDirs \cup CreatedBefore(log[j].host, j) : InDir(p, d, names)

\* the upload targets whose directory nothing had created
C37_Missing ==
    LET names == UploadBaseNames
    IN  UNION {{p \in Targets(log[j]) :
                  ~\E d \in BareDirs \cup CreatedBefore(log[j].host, j) : InDir(p, d, names)} :
               j \in UploadAttempts}

\* /etc/containerd/config.toml is the only upload into a directory nothing created
C37_OnlyContainerdConfigMissing ==
    UploadAttempts # {} => C37_Missing \subseteq {"/etc/containerd/config.toml"}


-----------------------------------------------------------------------------
\* the call in flight is a CopyFile or a CopyContent
IsCopy == session.stage # "none" /\ session.call \in {"CopyFile", "CopyContent"}

\* the two remote commands of a copy: the write, then the mode change
Tee(path) == <<"sudo", "tee", path, ">", "/dev/null">>

Chmod(path) == <<"sudo", "chmod", "644", path>>

CopyReturned == IsCopy /\ session.stage = "returned"

(* C32: CopyFile and CopyContent run `sudo tee <path>` in their first session and
   `sudo chmod 644 <path>` in a second one, the mode change only after the write
   has exited with status 0; the call returns nil exactly when both commands exited
   with status 0 and an error in every other case; and CopyFile on a local file that
   cannot be read runs no remote command *)
C32_Copy ==
    IsCopy =>
        LET ran == session.ran
        IN  /\ Len(ran) <= 2
            /\ Len(ran) >= 1 => ran[1].cmd = Tee(session.remotePath) /\ ran[1].session = 1
            /\ Len(ran) = 2 => /\ ran[2].cmd = Chmod(session.remotePath)
                               /\ ran[2].session = 2
                               /\ ran[1].status = 0
            /\ session.stage = "returned" =>
                  (session.err = "" <=> Len(ran) = 2 /\ ran[1].status = 0 /\ ran[2].status = 0)
            /\ (session.call = "CopyFile" /\ session.localPath \notin DOMAIN localFiles)
                  => ran = <<>> /\ (session.stage = "returned" => session.err # "")

\* a CopyFile returned nil after the write and the mode change
C32_Witness ==
    /\ CopyReturned
    /\ session.call = "CopyFile"
    /\ session.err = ""
    /\ Len(session.ran) = 2

\* a CopyFile returned an error because the local file could not be read
C32_WitnessUnreadable ==
    /\ CopyReturned
    /\ session.localPath \notin DOMAIN localFiles
    /\ session.err # ""


-----------------------------------------------------------------------------
(* DestroyCluster against hosts with a state: the units that run and that are
   enabled, and the directories and files that are there *)

UnitSet == {KnownUnits[k] : k \in 1..Len(KnownUnits)}

UnitFile(unit) == "/etc/systemd/system/" \o unit \o ".service"

\* what the shell puts in place of an argument of rm -f on a host set up by SetupCluster
Glob(arg) ==
    IF arg = "/usr/local/bin/etcd*" THEN {"/usr/local/bin/etcd", "/usr/local/bin/etcdctl"}
    ELSE IF arg = "/usr/local/bin/kube*"
    THEN {"/usr/local/bin/kube-apiserver", "/usr/local/bin/kubectl", "/usr/local/bin/kubelet"}
    ELSE IF arg = "/bin/containerd*" THEN {"/bin/containerd", "/bin/containerd-shim"}
    ELSE Expansion(arg)

\* the paths `sudo rm -rf ...` and `sudo rm -f ...` take away
RmTargets(cmd) ==
    IF Len(cmd) >= 3 /\ cmd[2] = "rm" /\ cmd[3] = "-rf"
    THEN UNION {Under(cmd[k]) \cup {cmd[k]} : k \in 4..Len(cmd)}
    ELSE IF Len(cmd) >= 3 /\ cmd[2] = "rm" /\ cmd[3] = "-f"
    THEN UNION {Glob(cmd[k]) : k \in 4..Len(cmd)}
    ELSE {}

\* the units `sudo systemctl stop|disable ...` names
UnitsOf(cmd) == {cmd[k] : k \in 4..Len(cmd)} \cap UnitSet

\* the command ends in `|| true`
OrTrue(cmd) == Len(cmd) >= 2 /\ SubSeq(cmd, Len(cmd) - 1, Len(cmd)) = <<"||", "true">>

IsSystemctl(cmd, verb) == Len(cmd) >= 3 /\ cmd[2] = "systemctl" /\ cmd[3] = verb

\* a host nothing was installed on
BareHost == [active |-> {}, enabled |-> {}, paths |-> {}]

\* a host after SetupCluster: every unit of its role and of the other role too
ProvisionedHost ==
    [active  |-> UnitSet,
     enabled |-> UnitSet,
     paths   |-> {DestroyDirs[k] : k \in 1..Len(DestroyDirs)}
                 \cup {"/etc/etcd/ca.pem", "/var/lib/kubelet/kubelet-config.yaml"}
                 \cup Glob("/usr/local/bin/etcd*") \cup Glob("/usr/local/bin/kube*")
                 \cup {"/usr/local/bin/runc", "/bin/containerd"}
                 \cup {UnitFile(u) : u \in UnitSet}
                 \cup {"/etc/containerd/config.toml", "/tmp/coredns.yaml"}]

\* a host DestroyCluster has been through
DestroyedHost ==
    [active |-> {}, enabled |-> {}, paths |-> {"/etc/containerd/config.toml", "/tmp/coredns.yaml"}]

\* the exit status of a cleanup command: systemctl stop and disable fail (5) on
\* a unit that is not loaded, rm -rf and rm -f do not mind what is missing, and
\* `|| true` turns every status into 0
ExitStatus(cmd, host) ==
    IF OrTrue(cmd) THEN 0
    ELSE IF IsSystemctl(cmd, "stop") \/ IsSystemctl(cmd, "disable")
    THEN IF \A u \in UnitsOf(cmd) : UnitFile(u) \in host.paths THEN 0 ELSE 5
    ELSE 0

\* the host after the command
Effect(cmd, host) ==
    IF IsSystemctl(cmd, "stop") THEN [host EXCEPT !.active = @ \ UnitsOf(cmd)]
    ELSE IF IsSystemctl(cmd, "disable") THEN [host EXCEPT !.enabled = @ \ UnitsOf(cmd)]
    ELSE [host EXCEPT !.paths = @ \ RmTargets(cmd)]

HostsOf(cfg) == {Fleet(cfg)[n].IPAddress : n \in 1..Len(Fleet(cfg))}

DestroyInit ==
    /\ config \in Configs
    /\ remote \in [HostsOf(config) -> {BareHost, ProvisionedHost, DestroyedHost}]
    /\ workDirExists \in BOOLEAN
    /\ localFiles = IF workDirExists THEN WriteAll(<<>>, CAFiles(config.Certificates)) ELSE <<>>
    /\ mode = "idle"
    /\ script = <<>>
    /\ pc = 1
    /\ ranged = {}
    /\ elapsed = 0
    /\ probes = 0
    /\ log = <<>>
    /\ phasesDone = <<>>
    /\ failedCalls = {}
    /\ reissued = {}
    /\ nonActive = FALSE
    /\ result = [setup |-> "none", destroy |-> "none"]
    /\ errv = [setup |-> NoError, destroy |-> NoError]
    /\ configFile = NoFile
    /\ loaded = NotLoaded
    /\ ctxDone = FALSE
    /\ session = NoSession
    /\ answer = "none"
    /\ term = NoTerminal

\* cm.sshClient.ExecuteCommand(ctx, node.IPAddress, cmd) on a host with a state:
\* the call fails if the host is not reached or the command exits with a status
\* other than 0
RemoteExecuteCommand ==
    /\ AtStep("ExecuteCommand")
    /\ \E connected \in BOOLEAN :
        LET before == remote[Cur.host]
            status == ExitStatus(Cur.cmd, before)
            after  == IF connected THEN Effect(Cur.cmd, before) ELSE before
            ok     == connected /\ status = 0
        IN  /\ remote' = [remote EXCEPT ![Cur.host] = after]
            /\ log' = Append(log, Cur @@ [ok |-> ok, connected |-> connected,
                                          before |-> before, after |-> after])
            /\ TransportCall(Call(Cur.host, Cur.cmd), ok)
            /\ IF ok THEN Proceed ELSE Fail("ErrTransport")
    /\ UNCHANGED <<config, configFile, loaded, term, ctxDone, session, answer, workDirExists,
                   localFiles, mode, script, ranged, elapsed, probes, phasesDone, nonActive>>

DestroyNext ==
    \/ StartDestroy
    \/ RemoteExecuteCommand
    \/ RemoveAll
    \/ ReturnNil

DestroySpec == DestroyInit /\ [][DestroyNext]_vars

\* everything the rm commands of DestroyCluster take away
DestroyTargets == UNION {RmTargets(DestroyCommands[k]) : k \in 1..Len(DestroyCommands)}

\* nothing of what DestroyCluster stops, disables or removes (`targets`) is on the host
NothingLeft(host, targets) ==
    host.active = {} /\ host.enabled = {} /\ host.paths \cap targets = {}

\* the cleanup commands run so far
CleanupCalls == SelectSeq(log, LAMBDA e : e.phase = "Destroy" /\ e.op = "ExecuteCommand")

(* C31: a cleanup command that reaches a host on which nothing is left to stop,
   disable or remove succeeds and leaves the host as it was, and os.RemoveAll of a
   work directory that is not there succeeds; on such a fleet DestroyCluster fails
   only on a host it does not reach, and once it has returned nil every host is
   cleaned and the work directory is gone: a further DestroyCluster returns nil and
   changes nothing *)
C31_Idempotent ==
    LET calls   == CleanupCalls
        targets == DestroyTargets
    IN  /\ \A i \in 1..Len(calls) :
              (calls[i].connected /\ NothingLeft(calls[i].before, targets))
                  => calls[i].ok /\ calls[i].after = calls[i].before
        /\ result.destroy = "error" =>
              LET last == log[Len(log)]
              IN  IF last.op = "RemoveAll" THEN ~last.ok /\ workDirExists
                  ELSE ~last.connected \/ ~NothingLeft(last.before, targets)
        /\ result.destroy = "nil" =>
              /\ \A h \in DOMAIN remote : NothingLeft(remote[h], targets)
              /\ ~workDirExists
              /\ localFiles = <<>>

\* DestroyCluster returned nil on a fleet on which nothing was left and with no
\* work directory: every command ran on a cleaned host and changed nothing
C31_Witness ==
    LET targets == DestroyTargets
    IN  /\ result.destroy = "nil"
        /\ Len(config.Workers) = 2
        /\ \A i \in 1..Len(CleanupCalls) :
              /\ NothingLeft(CleanupCalls[i].before, targets)
              /\ CleanupCalls[i].after = CleanupCalls[i].before
        /\ \E h \in DOMAIN remote : remote[h] = BareHost
        /\ \E h \in DOMAIN remote : remote[h] = DestroyedHost


-----------------------------------------------------------------------------
(* The views of the TUI: the cluster list, the add-cluster form, the loading
   view and the terminal; the tea.Cmd closures that run in the background and
   the messages they send back to Update; the registry of the config Manager
   and the kubeconfig files it manages.  Text is a sequence of pieces. *)

\* how many tea.Cmd closures a session starts
MaxOps == 2

\* the pieces of a text, joined
RECURSIVE Join(_)
Join(s) == IF s = <<>> THEN "" ELSE Head(s) \o Join(Tail(s))

\* strings.Count(value, ".")
CountDots(s) == Cardinality({i \in 1..Len(s) : s[i] = "."})

\* filepath.Join(m.ConfigDir, fmt.Sprintf("%s.yaml", clusterName))
ManagedPath(name) == "~/.kube-orchestrator/configs/" \o name \o ".yaml"

\* what the user types into the form: names, addresses, paths, and blanks
FormInputs ==
    [name    |-> {<<"prod">>, <<" ", "dev", " ">>, <<" ">>},
     address |-> {<<"10", ".", "0", ".", "0", ".", "1">>, <<"k8s", ".", "example", ".", "com">>},
     path    |-> {<<"/home/user/b.yaml">>, <<"/home/user/notes.txt">>,
                  <<"/home/user/missing.yaml">>}]

\* the files of the user: two kubeconfigs and a file that is not YAML
UserFiles ==
    [p \in {"/home/user/a.yaml", "/home/user/b.yaml", "/home/user/notes.txt"} |->
        IF p = "/home/user/a.yaml" THEN [yaml |-> TRUE, server |-> "https://a:6443"]
        ELSE IF p = "/home/user/b.yaml" THEN [yaml |-> TRUE, server |-> "https://b:6443"]
        ELSE [yaml |-> FALSE, server |-> ""]]

\* ioutil.WriteFile(path, data, 0644)
WriteTo(files, path, data) ==
    [p \in DOMAIN files \cup {path} |-> IF p = path THEN data ELSE files[p]]

\* the zero ClusterInfo of NewApplication
NoCluster ==
    [Name |-> "", ConfigPath |-> "", Server |-> "", PublicIP |-> "", DNS |-> "",
     HasArgoCD |-> FALSE]

\* a cluster registered in an earlier session from /home/user/a.yaml
Registered(name, argo) ==
    [Name |-> name, ConfigPath |-> ManagedPath(name), Server |-> "https://a:6443",
     PublicIP |-> "10.0.0.1", DNS |-> "", HasArgoCD |-> argo]

Application(clusters) ==
    [state |-> "clusterSelectionView", selectedCluster |-> "nil", kubectlExecutor |-> "nil",
     gitManager |-> "nil", addClusterStep |-> 0, newCluster |-> NoCluster, textInput |-> <<>>,
     output |-> "", loading |-> FALSE,
     registry |-> clusters, registryFile |-> clusters,
     files |-> IF clusters = <<>> THEN UserFiles
               ELSE WriteTo(UserFiles, clusters[1].ConfigPath, UserFiles["/home/user/a.yaml"]),
     pending |-> <<>>, inbox |-> <<>>, started |-> 0, panicked |-> FALSE]

\* NewApplication(cfg) on a registry that is empty or holds one cluster
AppInit ==
    /\ config \in {GenerateDefaultConfig(1)}
    /\ term \in {Application(<<>>), Application(<<Registered("prod", FALSE)>>)}
    /\ ctxDone = FALSE
    /\ session = NoSession
    /\ remote = NoRemote
    /\ answer = "none"
    /\ configFile = NoFile
    /\ loaded = NotLoaded
    /\ workDirExists = TRUE
    /\ localFiles = <<>>
    /\ mode = "idle"
    /\ script = <<>>
    /\ pc = 1
    /\ ranged = {}
    /\ elapsed = 0
    /\ probes = 0
    /\ log = <<>>
    /\ phasesDone = <<>>
    /\ failedCalls = {}
    /\ reissued = {}
    /\ nonActive = FALSE
    /\ result = [setup |-> "none", destroy |-> "none"]
    /\ errv = [setup |-> NoError, destroy |-> NoError]

\* the program runs, and may start one more closure
Alive == ~term.panicked

MayStart == term.started < MaxOps

\* a message a closure sends to Update; `cancelled` records that the user left
\* the loading view with esc while the closure was running or its message waiting
Sent(type, from, payload) ==
    [type |-> type, from |-> from, payload |-> payload, cancelled |-> FALSE]

\* updateClusterSelection on enter: a cluster of the list, or the add-cluster item
updateClusterSelection ==
    /\ Alive
    /\ term.state = "clusterSelectionView"
    /\ \/ /\ MayStart
          /\ \E i \in 1..Len(term.registry) :
                term' = [term EXCEPT
                            !.inbox = Append(@, Sent("clusterSelectedMsg", "select",
                                                     term.registry[i])),
                            !.started = @ + 1]
       \/ term' = [term EXCEPT !.state = "addClusterView", !.addClusterStep = 0,
                               !.textInput = <<>>]
    /\ OnlyTerm

\* updateAddCluster on key runes: the text input takes what is typed
TypeInput ==
    /\ Alive
    /\ term.state = "addClusterView"
    /\ term.textInput = <<>>
    /\ \E typed \in (CASE term.addClusterStep = 0 -> FormInputs.name
                       [] term.addClusterStep = 1 -> FormInputs.address
                       [] OTHER -> FormInputs.path) :
          term' = [term EXCEPT !.textInput = typed]
    /\ OnlyTerm

\* updateAddCluster on esc
updateAddCluster ==
    /\ Alive
    /\ term.state = "addClusterView"
    /\ term' = [term EXCEPT !.state = "clusterSelectionView", !.addClusterStep = 0]
    /\ OnlyTerm

\* updateAddCluster on enter: handleAddClusterStep
handleAddClusterStep ==
    /\ Alive
    /\ term.state = "addClusterView"
    /\ LET value == TrimSpace(term.textInput)
       IN  IF value = <<>> THEN UNCHANGED term
           ELSE IF term.addClusterStep = 0
           THEN term' = [term EXCEPT !.newCluster.Name = Join(value), !.textInput = <<>>,
                                     !.addClusterStep = 1]
           ELSE IF term.addClusterStep = 1
           THEN term' = [term EXCEPT
                            !.newCluster.PublicIP = IF CountDots(value) = 3 /\ ":" \notin Range(value)
                                                    THEN Join(value) ELSE @,
                            !.newCluster.DNS = IF CountDots(value) = 3 /\ ":" \notin Range(value)
                                               THEN @ ELSE Join(value),
                            !.textInput = <<>>,
                            !.addClusterStep = 2]
           ELSE /\ MayStart
                /\ term' = [term EXCEPT !.loading = TRUE, !.state = "loadingView",
                                        !.pending = Append(@, [kind |-> "addCluster",
                                                               configPath |-> Join(value),
                                                               cancelled |-> FALSE]),
                                        !.started = @ + 1]
    /\ OnlyTerm

\* where addCluster may fail for a reason outside the program
AddFailures == {"none", "WriteFile", "VerifyKubectlConnection", "SaveRegistry"}

\* the closure of handleAddClusterStep: a.addCluster(value), then the message.
\* ValidateClusterConfig, CopyKubeConfig, ParseKubeConfig, VerifyKubectlConnection
\* and Manager.AddCluster with its SaveRegistry, in this order; each returns at
\* its own error
addCluster ==
    /\ Alive
    /\ term.pending # <<>>
    /\ Head(term.pending).kind = "addCluster"
    /\ \E failure \in AddFailures :
        LET op       == Head(term.pending)
            name     == term.newCluster.Name
            src      == op.configPath
            valid    == name # "" /\ src # "" /\ src \in DOMAIN term.files /\ term.files[src].yaml
            dest     == ManagedPath(name)
            copied   == valid /\ failure # "WriteFile"
            files    == IF copied THEN WriteTo(term.files, dest, term.files[src]) ELSE term.files
            verified == copied /\ failure # "VerifyKubectlConnection"
            cluster  == [term.newCluster EXCEPT
                            !.ConfigPath = IF copied THEN dest ELSE @,
                            !.Server = IF copied THEN term.files[src].server ELSE @,
                            !.HasArgoCD = IF verified THEN TRUE ELSE @]
            fresh    == \A i \in 1..Len(term.registry) : term.registry[i].Name # name
            appended == verified /\ fresh
            registry == IF appended THEN Append(term.registry, cluster) ELSE term.registry
            saved    == appended /\ failure # "SaveRegistry"
            err      == IF ~valid THEN "invalid cluster configuration"
                        ELSE IF ~copied THEN "failed to copy kubeconfig"
                        ELSE IF ~verified THEN "failed to connect to cluster"
                        ELSE IF ~saved THEN "failed to add cluster to configuration"
                        ELSE ""
            msg      == IF err = "" THEN Sent("clusterAddedMsg", "addCluster", "a.newCluster")
                        ELSE Sent("errorMsg", "addCluster", err)
        IN  term' = [term EXCEPT !.newCluster = cluster,
                                 !.files = files,
                                 !.registry = registry,
                                 !.registryFile = IF saved THEN registry ELSE @,
                                 !.pending = Tail(@),
                                 !.inbox = Append(@, [msg EXCEPT !.cancelled = op.cancelled])]
    /\ OnlyTerm

\* updateTerminal on esc, and on enter after a command was typed: executeCommand
\* up to the tea.Cmd it returns
updateTerminal ==
    /\ Alive
    /\ term.state = "terminalView"
    /\ \/ term' = [term EXCEPT !.state = "clusterSelectionView"]
       \/ /\ MayStart
          /\ IF term.selectedCluster = "nil"
             THEN term' = [term EXCEPT !.panicked = TRUE]
             ELSE term' = [term EXCEPT !.output = "[" \o term.selectedCluster \o "]$ get pods",
                                       !.loading = TRUE,
                                       !.state = "loadingView",
                                       !.pending = Append(@, [kind |-> "command",
                                                              cancelled |-> FALSE]),
                                       !.started = @ + 1]
    /\ OnlyTerm

\* the closure of executeCommand: the output of kubectl, or its error
commandClosure ==
    /\ Alive
    /\ term.pending # <<>>
    /\ Head(term.pending).kind = "command"
    /\ \E ok \in BOOLEAN :
        LET op  == Head(term.pending)
            msg == IF ok THEN Sent("commandExecutedMsg", "command", "pods")
                   ELSE Sent("errorMsg", "command", "exit status 1")
        IN  IF term.kubectlExecutor = "nil"
            THEN term' = [term EXCEPT !.panicked = TRUE]
            ELSE term' = [term EXCEPT !.pending = Tail(@),
                                      !.inbox = Append(@, [msg EXCEPT !.cancelled = op.cancelled])]
    /\ OnlyTerm

\* Update on a key in the loading view: esc goes back to the list.  Nothing
\* tells the closure in flight or keeps its message from Update.
updateLoading ==
    /\ Alive
    /\ term.state = "loadingView"
    /\ term' = [term EXCEPT
                    !.state = "clusterSelectionView",
                    !.loading = FALSE,
                    !.pending = [i \in 1..Len(@) |-> [@[i] EXCEPT !.cancelled = TRUE]],
                    !.inbox = [i \in 1..Len(@) |-> [@[i] EXCEPT !.cancelled = TRUE]]]
    /\ OnlyTerm

\* handleClusterSelected(cluster), without and with a failing git manager
handleClusterSelected(app, cluster, gitOk) ==
    LET selected == [app EXCEPT !.selectedCluster = cluster.Name,
                                !.kubectlExecutor = cluster.Name]
    IN  IF ~cluster.HasArgoCD
        THEN [selected EXCEPT !.state = "terminalView",
                              !.output = "Connected to cluster: " \o cluster.Name]
        ELSE IF gitOk
        THEN [selected EXCEPT !.gitManager = cluster.Name,
                              !.state = "terminalView",
                              !.output = "Connected to cluster: " \o cluster.Name]
        ELSE [selected EXCEPT !.gitManager = cluster.Name,
                              !.inbox = Append(@, Sent("errorMsg", "handleClusterSelected",
                                                       "failed to initialize git repository"))]

\* updateTerminalOutput: getCurrentPrompt reads a.selectedCluster.Name, and
\* panics on a nil selectedCluster
updateTerminalOutput(app) ==
    IF app.selectedCluster = "nil" THEN [app EXCEPT !.panicked = TRUE] ELSE app

\* Update on the message of a closure
UpdateMsg ==
    /\ Alive
    /\ term.inbox # <<>>
    /\ \E gitOk \in BOOLEAN :
        LET msg == Head(term.inbox)
            app == [term EXCEPT !.inbox = Tail(@)]
        IN  term' =
              CASE msg.type = "clusterSelectedMsg" ->
                      handleClusterSelected(app, msg.payload, gitOk)
                [] msg.type = "clusterAddedMsg" ->
                      handleClusterSelected(app, app.newCluster, gitOk)
                [] msg.type = "commandExecutedMsg" ->
                      updateTerminalOutput([app EXCEPT !.output = msg.payload,
                                                       !.loading = FALSE,
                                                       !.state = "terminalView"])
                [] OTHER ->
                      updateTerminalOutput([app EXCEPT !.output = "Error: " \o msg.payload,
                                                       !.loading = FALSE,
                                                       !.state = "terminalView"])
    /\ OnlyTerm

AppNext ==
    \/ updateClusterSelection
    \/ TypeInput
    \/ updateAddCluster
    \/ handleAddClusterStep
    \/ addCluster
    \/ updateTerminal
    \/ commandClosure
    \/ updateLoading
    \/ UpdateMsg

\* the runtime runs every closure and hands every message to Update
AppSpec ==
    AppInit /\ [][AppNext]_vars /\ WF_vars(addCluster) /\ WF_vars(commandClosure)
        /\ WF_vars(UpdateMsg)


-----------------------------------------------------------------------------
(* C38 as stated: whenever the application is in the terminal view, a cluster is
   selected: selectedCluster and kubectlExecutor are not nil, after every sequence
   of key presses and messages *)
C38_ClusterSelectedInTerminal ==
    term.state = "terminalView" =>
        term.selectedCluster # "nil" /\ term.kubectlExecutor # "nil"

\* what the code does: the terminal view is entered with no cluster selected only
\* by Update on a commandExecutedMsg or an errorMsg, which then panics in
\* getCurrentPrompt
C38_PanicsWithoutCluster ==
    (term.state = "terminalView" /\ term.selectedCluster = "nil") => term.panicked

-----------------------------------------------------------------------------
\* the closure of the add-cluster form ran and sent an errorMsg
AddFailed ==
    /\ addCluster
    /\ term'.inbox[Len(term'.inbox)].type = "errorMsg"

\* the managed kubeconfig of every registered cluster is what it was
KubeconfigsKept ==
    \A i \in 1..Len(term.registry) :
        term'.files[term.registry[i].ConfigPath] = term.files[term.registry[i].ConfigPath]

(* C39 as stated: when addCluster returns an error, the registry in memory, the
   registry file and the managed kubeconfig files of the clusters registered
   before are what they were before the attempt *)
C39_FailedAddLeavesClusters ==
    [][AddFailed => /\ term'.registry = term.registry
                    /\ term'.registryFile = term.registryFile
                    /\ KubeconfigsKept]_vars

\* what the code keeps: a failed attempt never changes the registry file, and it
\* changes the registry in memory only when SaveRegistry failed after the append
C39_RegistryFileKept ==
    [][AddFailed => /\ term'.registryFile = term.registryFile
                    /\ (term'.registry # term.registry
                          => term'.inbox[Len(term'.inbox)].payload
                                = "failed to add cluster to configuration")]_vars

-----------------------------------------------------------------------------
\* Update takes the message of a closure that was running, or whose message was
\* waiting, when the user left the loading view with esc
CancelledArrives ==
    /\ UpdateMsg
    /\ Head(term.inbox).cancelled
    /\ term.state = "clusterSelectionView"

(* C40 as stated: once the user has left the loading view with esc and is in the
   cluster selection view, the message of the cancelled operation, when it
   arrives, changes neither the view nor the output *)
C40_CancelledMessageIgnored ==
    [][CancelledArrives => term'.state = term.state /\ term'.output = term.output]_vars

\* what the code does: the result or the error of a cancelled operation becomes
\* the output and moves the view to the terminal, and the cluster of a cancelled
\* add-cluster attempt that succeeded is selected
C40_CancelledMessageTakesOver ==
    [][CancelledArrives =>
          /\ Head(term.inbox).type = "commandExecutedMsg"
                => term'.state = "terminalView" /\ term'.output = Head(term.inbox).payload
          /\ Head(term.inbox).type = "errorMsg"
                => /\ term'.state = "terminalView"
                   /\ term'.output = "Error: " \o Head(term.inbox).payload
          /\ Head(term.inbox).type = "clusterAddedMsg"
                => term'.selectedCluster = term.newCluster.Name]_vars

====
